---------------------------- MODULE Spec2Model ----------------------------
(***************************************************************************)
(* A model of the screenplay scene aggregation engine                      *)
(* (src/src/core/aggregator.py) together with the text utilities it calls  *)
(* (src/src/utils/text_processing.py) and the chunk loop that feeds it     *)
(* (src/src/core/pipeline.py).                                             *)
(*                                                                         *)
(* Representation.  A Python str is a sequence of one-character strings.   *)
(* Characters outside what a TLA+ string literal spells comfortably are    *)
(* tokens: "NL" (U+000A), "TAB" (U+0009), "BEL" (U+0007, a non-printing    *)
(* character), "EM" (U+2014), "EN" (U+2013), "SURR" (U+D800, a lone        *)
(* surrogate, which json.loads accepts inside a string), "DQUOTE",         *)
(* "BACKSLASH" and "BACKTICK".                                             *)
(* Confidences are integers in hundredths (0.65 is 65), page lengths are   *)
(* exact rationals <<numerator, denominator>> and rounded lengths are      *)
(* integers in eighths of a page.  A missing page estimate (None) is 0 and *)
(* missing layout data (None) is the empty list: the code tests both only  *)
(* for truth, and 0 and [] are as false as None.                           *)
(***************************************************************************)
EXTENDS Naturals, Integers, Sequences, FiniteSets, TLC

---------------------------------------------------------------------------
(* Characters and the str methods the code uses                            *)

\* the printable ASCII range \x20-\x7E, in code point order
Ascii ==
    << " ", "!", "DQUOTE", "#", "$", "%", "&", "'", "(", ")", "*", "+", ",", "-", ".", "/",
       "0", "1", "2", "3", "4", "5", "6", "7", "8", "9", ":", ";", "<", "=", ">", "?",
       "@", "A", "B", "C", "D", "E", "F", "G", "H", "I", "J", "K", "L", "M", "N", "O",
       "P", "Q", "R", "S", "T", "U", "V", "W", "X", "Y", "Z", "[", "BACKSLASH", "]", "^", "_",
       "BACKTICK", "a", "b", "c", "d", "e", "f", "g", "h", "i", "j", "k", "l", "m", "n", "o",
       "p", "q", "r", "s", "t", "u", "v", "w", "x", "y", "z", "{", "|", "}", "~" >>

\* a function with domain 1..n as a sequence value
AsSeq(f) == SubSeq(f, 1, Len(f))

IndexIn(c, seq) == CHOOSE i \in 1..Len(seq) : seq[i] = c

SeqRange(seq) == {seq[i] : i \in 1..Len(seq)}

AsciiSet == SeqRange(Ascii)

\* ord(c)
CodePoint(c) ==
    CASE c = "BEL" -> 7
      [] c = "TAB" -> 9
      [] c = "NL"  -> 10
      [] c = "EN"  -> 8211
      [] c = "EM"  -> 8212
      [] c = "SURR" -> 55296
      [] OTHER     -> 31 + IndexIn(c, Ascii)

UpperLetters == SubSeq(Ascii, 34, 59)
LowerLetters == SubSeq(Ascii, 66, 91)
UpperSet == SeqRange(UpperLetters)
LowerSet == SeqRange(LowerLetters)
DigitSet == SeqRange(SubSeq(Ascii, 17, 26))

\* str.upper() on one character
UpperChar(c) == IF c \in LowerSet THEN UpperLetters[IndexIn(c, LowerLetters)] ELSE c

\* str.upper()
str_upper(s) == AsSeq([i \in 1..Len(s) |-> UpperChar(s[i])])

\* the characters \s and str.strip() treat as whitespace
IsSpace(c) == c \in {" ", "NL", "TAB"}

\* the characters \w matches
IsWordChar(c) == c \in UpperSet \cup LowerSet \cup DigitSet \cup {"_"}

\* s[a:b] with 0-based a, b as in Python (a, b >= 0)
Slice(s, a, b) == SubSeq(s, a + 1, IF b < Len(s) THEN b ELSE Len(s))

\* s[:n]
Prefix(s, n) == Slice(s, 0, n)

\* s[n:]
Suffix(s, n) == Slice(s, n, Len(s))

\* str.strip(chars): drop leading and trailing characters that are in the set
StripSet(s, set) ==
    LET keep == {i \in 1..Len(s) : s[i] \notin set}
    IN  IF keep = {} THEN << >>
        ELSE LET lo == CHOOSE i \in keep : \A j \in keep : i <= j
                 hi == CHOOSE i \in keep : \A j \in keep : i >= j
             IN  SubSeq(s, lo, hi)

\* str.strip()
str_strip(s) == StripSet(s, {" ", "NL", "TAB"})

\* sub in s
Contains(sub, s) ==
    \E i \in 1..(Len(s) - Len(sub) + 1) : SubSeq(s, i, i + Len(sub) - 1) = sub

\* re.sub(r'\s+', ' ', s)
\* a run of whitespace becomes one space: its last character is kept, as " "
CollapseSpaces(s) ==
    LET kept == SelectSeq(AsSeq([i \in 1..Len(s) |-> i]),
                          LAMBDA i : ~(IsSpace(s[i]) /\ i < Len(s) /\ IsSpace(s[i + 1])))
    IN  AsSeq([k \in 1..Len(kept) |-> IF IsSpace(s[kept[k]]) THEN " " ELSE s[kept[k]]])

\* str.replace(old, new) for a one-character old
ReplaceChar(s, old, new) == AsSeq([i \in 1..Len(s) |-> IF s[i] = old THEN new ELSE s[i]])

\* a < b on str: lexicographic by code point
\* at the first position where they differ, else the shorter one is less
StrLess(a, b) ==
    LET shorter == IF Len(a) < Len(b) THEN Len(a) ELSE Len(b)
        differ == {i \in 1..shorter : a[i] # b[i]}
    IN  IF differ = {} THEN Len(a) < Len(b)
        ELSE LET i == CHOOSE d \in differ : \A e \in differ : d <= e
             IN  CodePoint(a[i]) < CodePoint(b[i])

\* re.sub of every character outside the set by the empty string
KeepSet(s, set) == SelectSeq(s, LAMBDA c : c \in set)

\* the concatenation of a list of sequences
RECURSIVE Flatten(_)
Flatten(lists) ==
    IF lists = << >> THEN << >>
    ELSE IF Len(lists) = 1 THEN lists[1]
    ELSE LET h == Len(lists) \div 2
         IN  Flatten(SubSeq(lists, 1, h)) \o Flatten(SubSeq(lists, h + 1, Len(lists)))

\* the literal w occurs in s at 1-based position i
LitAt(s, i, w) == i + Len(w) - 1 <= Len(s) /\ SubSeq(s, i, i + Len(w) - 1) = w

\* \b between s[p] and s[p+1] (p = 0 is the start, p = Len(s) the end)
WordBoundary(s, p) ==
    (p >= 1 /\ IsWordChar(s[p])) # (p + 1 <= Len(s) /\ IsWordChar(s[p + 1]))

\* re.search(r'\b(a1|a2|...)\b', s).group(0) for literal alternatives, "" when
\* there is no match: the leftmost position, there the first alternative
\* after which the closing \b holds
BoundedWordSearch(s, alts) ==
    LET ok(i, k) == /\ WordBoundary(s, i - 1)
                    /\ LitAt(s, i, alts[k])
                    /\ WordBoundary(s, i + Len(alts[k]) - 1)
        starts == {i \in 1..Len(s) : \E k \in 1..Len(alts) : ok(i, k)}
    IN  IF starts = {} THEN << >>
        ELSE LET i == CHOOSE a \in starts : \A b \in starts : a <= b
                 ks == {k \in 1..Len(alts) : ok(i, k)}
                 k == CHOOSE a \in ks : \A b \in ks : a <= b
             IN  alts[k]

---------------------------------------------------------------------------
(* src/src/utils/text_processing.py                                        *)

Punctuation == {".", ",", ";", ":", "!", "?", "(", ")", "[", "]", "{", "}"}

normalize_slugline(raw_slugline) ==
    LET n1 == str_strip(str_upper(raw_slugline))
        n2 == CollapseSpaces(n1)
        n3 == ReplaceChar(ReplaceChar(n2, "EM", "-"), "EN", "-")
        n4 == KeepSet(n3, AsciiSet)
    IN  StripSet(n4, Punctuation)

HexDigits == <<"0", "1", "2", "3", "4", "5", "6", "7", "8", "9", "a", "b", "c", "d", "e", "f">>

\* str.encode('utf-8') of one character
Utf8Bytes(c) ==
    CASE c = "EN" -> <<226, 128, 147>>
      [] c = "EM" -> <<226, 128, 148>>
      [] OTHER    -> <<CodePoint(c)>>

RECURSIVE HexOfBytes(_)
HexOfBytes(bs) ==
    IF bs = << >> THEN << >>
    ELSE <<HexDigits[(Head(bs) \div 16) + 1], HexDigits[(Head(bs) % 16) + 1]>>
         \o HexOfBytes(Tail(bs))

\* str.encode('utf-8') raises UnicodeEncodeError: a lone surrogate has no encoding
EncodeRaises(s) == "SURR" \in SeqRange(s)

Utf8Hex(s) == Flatten(AsSeq([i \in 1..Len(s) |-> HexOfBytes(Utf8Bytes(s[i]))]))

\* hashlib.sha256(b).hexdigest(), taken as collision-free: an injective map
\* of the hashed string to a lower-case hex string (here the hex of its
\* bytes, so that distinct inputs may still share their first 8 digits)
sha256_hexdigest(s) == Utf8Hex(s)

\* a faulty hash input that leaves the scene number out
hash_input_without_number(slugline_normalized, scene_number_raw, following, fname) ==
    slugline_normalized \o <<"|">> \o <<"|">> \o following \o <<"|">> \o fname

hash_input(slugline_normalized, scene_number_raw, following, fname) ==
    slugline_normalized \o <<"|">> \o scene_number_raw \o <<"|">>
        \o following \o <<"|">> \o fname

\* following_text[:first_chars_count].upper().strip(), whitespace runs collapsed
following_normalized(following_text, first_chars_count) ==
    CollapseSpaces(str_strip(str_upper(Prefix(following_text, first_chars_count))))

compute_scene_id(slugline_normalized, scene_number_raw, following_text, fname, first_chars_count) ==
    sha256_hexdigest(
        hash_input(slugline_normalized, scene_number_raw,
                   following_normalized(following_text, first_chars_count), fname))

\* compute_scene_id raises: the encode of line 44 meets a lone surrogate
compute_scene_id_raises(slugline_normalized, scene_number_raw, following_text, fname, first_chars_count) ==
    EncodeRaises(
        hash_input(slugline_normalized, scene_number_raw,
                   following_normalized(following_text, first_chars_count), fname))

time_patterns ==
    << << <<"M", "O", "R", "N", "I", "N", "G">>, <<"D", "A", "Y">>, <<"A", "F", "T", "E", "R", "N", "O", "O", "N">>, <<"E", "V", "E", "N", "I", "N", "G">>, <<"D", "U", "S", "K">>, <<"D", "A", "W", "N">>, <<"N", "I", "G", "H", "T">> >>,
       \* CONT\.? tries the dot first
       << <<"C", "O", "N", "T", "I", "N", "U", "O", "U", "S">>, <<"C", "O", "N", "T", ".">>, <<"C", "O", "N", "T">>, <<"L", "A", "T", "E", "R">>, <<"S", "A", "M", "E">> >>,
       << <<"M", "O", "M", "E", "N", "T", "S", " ", "L", "A", "T", "E", "R">>, <<"L", "A", "T", "E", "R", " ", "T", "H", "A", "T", " ", "D", "A", "Y">>, <<"S", "A", "M", "E", " ", "D", "A", "Y">> >> >>

extract_time_raw(slugline) ==
    LET upper_slug == str_upper(slugline)
        hits == {p \in 1..Len(time_patterns) :
                    BoundedWordSearch(upper_slug, time_patterns[p]) # << >>}
    IN  IF hits = {} THEN << >>
        ELSE BoundedWordSearch(upper_slug,
                 time_patterns[CHOOSE p \in hits : \A q \in hits : p <= q])

\* the members of TimeCanonical
TimeCanonical ==
    {"MORNING", "DAY", "AFTERNOON", "EVENING", "DUSK", "DAWN", "NIGHT",
     "CONTINUOUS", "LATER", "SAME_AS_PREVIOUS", "UNKNOWN"}

time_mappings ==
    << <<<<"M", "O", "R", "N", "I", "N", "G">>, "MORNING">>, <<<<"D", "A", "Y">>, "DAY">>, <<<<"A", "F", "T", "E", "R", "N", "O", "O", "N">>, "AFTERNOON">>,
       <<<<"E", "V", "E", "N", "I", "N", "G">>, "EVENING">>, <<<<"D", "U", "S", "K">>, "DUSK">>, <<<<"D", "A", "W", "N">>, "DAWN">>,
       <<<<"N", "I", "G", "H", "T">>, "NIGHT">> >>

\* returns <<time_canonical, inferred_from_previous>>
canonicalize_time(time_raw) ==
    LET time_upper == str_strip(str_upper(time_raw))
        direct == {k \in 1..Len(time_mappings) : time_mappings[k][1] = time_upper}
    IN  IF direct # {} THEN <<time_mappings[CHOOSE k \in direct : TRUE][2], FALSE>>
        ELSE IF Contains(<<"C", "O", "N", "T", "I", "N", "U", "O", "U", "S">>, time_upper) \/ Contains(<<"C", "O", "N", "T", ".">>, time_upper)
             THEN <<"CONTINUOUS", TRUE>>
        ELSE IF Contains(<<"L", "A", "T", "E", "R">>, time_upper) THEN <<"LATER", TRUE>>
        ELSE IF Contains(<<"S", "A", "M", "E">>, time_upper) THEN <<"SAME_AS_PREVIOUS", TRUE>>
        ELSE <<"UNKNOWN", FALSE>>

\* the end of the greedy \d+[A-Z]? that starts at the digit s[i]
NumberEnd(s, i) ==
    LET stops == {j \in i..Len(s) : j = Len(s) \/ s[j + 1] \notin DigitSet}
        j == CHOOSE a \in stops : \A b \in stops : a <= b
    IN  IF j < Len(s) /\ s[j + 1] \in UpperSet THEN j + 1 ELSE j

\* the end of \d+ alone
DigitsEnd(s, i) ==
    LET stops == {j \in i..Len(s) : j = Len(s) \/ s[j + 1] \notin DigitSet}
    IN  CHOOSE a \in stops : \A b \in stops : a <= b

Least(S) == CHOOSE a \in S : \A b \in S : a <= b

extract_scene_number(slugline) ==
    LET u == str_upper(slugline)
        isDigit(i) == i >= 1 /\ i <= Len(u) /\ u[i] \in DigitSet
        charAt(i, c) == i >= 1 /\ i <= Len(u) /\ u[i] = c
        \* r'#(\d+[A-Z]?)'
        m1 == {i \in 1..Len(u) : u[i] = "#" /\ isDigit(i + 1)}
        \* r'(\d+[A-Z]?)\.': the optional letter is given back when no dot follows it
        end2(i) == IF charAt(NumberEnd(u, i) + 1, ".") THEN NumberEnd(u, i)
                   ELSE IF charAt(DigitsEnd(u, i) + 1, ".") THEN DigitsEnd(u, i)
                   ELSE 0
        m2 == {i \in 1..Len(u) : isDigit(i) /\ end2(i) # 0}
        \* r'SCENE\s+(\d+[A-Z]?)'
        spacesEnd(i) == Least({j \in i..Len(u) : j = Len(u) \/ ~IsSpace(u[j + 1])})
        m3 == {i \in 1..Len(u) :
                  /\ LitAt(u, i, <<"S", "C", "E", "N", "E">>)
                  /\ i + 5 <= Len(u) /\ IsSpace(u[i + 5])
                  /\ isDigit(spacesEnd(i + 5) + 1)}
        \* r'^(\d+[A-Z]?)\s'
        end4 == IF ~isDigit(1) THEN 0
                ELSE IF NumberEnd(u, 1) < Len(u) /\ IsSpace(u[NumberEnd(u, 1) + 1])
                     THEN NumberEnd(u, 1)
                ELSE IF DigitsEnd(u, 1) < Len(u) /\ IsSpace(u[DigitsEnd(u, 1) + 1])
                     THEN DigitsEnd(u, 1)
                ELSE 0
    IN  IF m1 # {} THEN SubSeq(u, Least(m1) + 1, NumberEnd(u, Least(m1) + 1))
        ELSE IF m2 # {} THEN SubSeq(u, Least(m2), end2(Least(m2)))
        ELSE IF m3 # {}
             THEN SubSeq(u, spacesEnd(Least(m3) + 5) + 1,
                         NumberEnd(u, spacesEnd(Least(m3) + 5) + 1))
        ELSE IF end4 # 0 THEN SubSeq(u, 1, end4)
        ELSE << >>

\* the first index from i on that holds no whitespace, Len(s) + 1 when none
SkipSpaces(s, i) == Least({j \in i..(Len(s) + 1) : j = Len(s) + 1 \/ ~IsSpace(s[j])})

\* the words the time suffix of a heading may start with (CONT\.? starts with CONT)
location_time_words ==
    << <<"M", "O", "R", "N", "I", "N", "G">>, <<"D", "A", "Y">>, <<"A", "F", "T", "E", "R", "N", "O", "O", "N">>, <<"E", "V", "E", "N", "I", "N", "G">>, <<"D", "U", "S", "K">>, <<"D", "A", "W", "N">>, <<"N", "I", "G", "H", "T">>, <<"C", "O", "N", "T", "I", "N", "U", "O", "U", "S">>, <<"C", "O", "N", "T">> >>

\* .*$ matches from 1-based position i: no newline but a last one
RestOfLine(s, i) == \A j \in i..(Len(s) - 1) : s[j] # "NL"

\* re.sub(r'^(INT\.?|EXT\.?)\s*', '', clean_slug)
strip_int_ext(u) ==
    IF LitAt(u, 1, <<"I", "N", "T">>) \/ LitAt(u, 1, <<"E", "X", "T">>)
    THEN SubSeq(u, SkipSpaces(u, IF LitAt(u, 4, <<".">>) THEN 5 ELSE 4), Len(u))
    ELSE u

\* \s*-\s*(MORNING|...|CONT\.?).*$ matches at 1-based position i: a whitespace
\* run, a hyphen, a whitespace run and a word, up to the end or a last newline
time_suffix_at(c, i) ==
    LET h == SkipSpaces(c, i)
    IN  /\ LitAt(c, h, <<"-">>)
        /\ \E w \in 1..Len(location_time_words) :
               LitAt(c, SkipSpaces(c, h + 1), location_time_words[w])
        /\ RestOfLine(c, SkipSpaces(c, h + 1))

\* re.sub(r'\s*-\s*(MORNING|...|CONT\.?).*$', '', clean_slug): the leftmost match
strip_time_suffix(c) ==
    LET found == {i \in 1..Len(c) : time_suffix_at(c, i)}
    IN  IF found = {} THEN c
        ELSE SubSeq(c, 1, Least(found) - 1)
             \o (IF c[Len(c)] = "NL" THEN <<"NL">> ELSE << >>)

\* #?\d+[A-Z]?\.?\s*$ matches at 1-based position i
number_suffix_at(c, i) ==
    LET a == IF c[i] = "#" THEN i + 1 ELSE i
    IN  /\ a <= Len(c) /\ c[a] \in DigitSet
        /\ LET e == DigitsEnd(c, a)
                f == IF e < Len(c) /\ c[e + 1] \in UpperSet THEN e + 1 ELSE e
                g == IF f < Len(c) /\ c[f + 1] = "." THEN f + 1 ELSE f
            IN  SkipSpaces(c, g + 1) = Len(c) + 1

\* re.sub(r'#?\d+[A-Z]?\.?\s*$', '', clean_slug).strip()
strip_number_suffix(c) ==
    LET found == {i \in 1..Len(c) : number_suffix_at(c, i)}
    IN  str_strip(IF found = {} THEN c ELSE SubSeq(c, 1, Least(found) - 1))

\* clean_slug.split(' - ', 1): <<master, sub>>
split_location(c) ==
    LET seps == {i \in 1..Len(c) : LitAt(c, i, <<" ", "-", " ">>)}
    IN  IF seps = {} THEN <<c, << >> >>
        ELSE <<str_strip(SubSeq(c, 1, Least(seps) - 1)),
               str_strip(SubSeq(c, Least(seps) + 3, Len(c)))>>

\* extract_location_components: <<master, sub>>
extract_location_components(slugline) ==
    split_location(
        strip_number_suffix(strip_time_suffix(strip_int_ext(str_upper(slugline)))))

\* math.ceil(n / d) for n >= 0, d > 0
CeilDiv(n, d) == (n + d - 1) \div d

\* a faulty rounding without the floor of one eighth
ceil_to_eighth(value) == CeilDiv(value[1] * 8, value[2])

\* max(0.125, math.ceil(value * 8) / 8), in eighths; value is <<num, den>>
round_to_eighth(value) ==
    LET c == CeilDiv(value[1] * 8, value[2])
    IN  IF c > 1 THEN c ELSE 1

RECURSIVE DecimalDigits(_)
DecimalDigits(n) ==
    IF n < 10 THEN <<Ascii[17 + n]>>
    ELSE DecimalDigits(n \div 10) \o <<Ascii[17 + (n % 10)]>>

\* f"{n:03d}"
Format03d(n) ==
    LET d == DecimalDigits(n)
    IN  IF Len(d) >= 3 THEN d ELSE [i \in 1..(3 - Len(d)) |-> "0"] \o d

\* a faulty placeholder whose order is not padded
placeholder_unpadded(order, scene_id) ==
    <<"A", "U", "T", "O", "N", "-">> \o DecimalDigits(order) \o <<"-">>
        \o str_upper(Prefix(scene_id, 8))

\* a faulty placeholder that leaves the order out
placeholder_without_order(order, scene_id) ==
    <<"A", "U", "T", "O", "N", "-", "0", "0", "0", "-">> \o str_upper(Prefix(scene_id, 8))

generate_placeholder_scene_number(order, scene_id) ==
    LET hash_suffix == str_upper(Prefix(scene_id, 8))
    IN  <<"A", "U", "T", "O", "N", "-">> \o Format03d(order) \o <<"-">> \o hash_suffix

\* str.join over a list of strings
RECURSIVE Join(_, _)
Join(sep, parts) ==
    IF parts = << >> THEN << >>
    ELSE IF Len(parts) = 1 THEN parts[1]
    ELSE parts[1] \o sep \o Join(sep, Tail(parts))

\* the loop of chunk_text from a given start: the <<start, end>> of each chunk
\* (defined for overlap < chunk_size, where start advances in every round)
RECURSIVE chunk_text_from(_, _, _, _)
chunk_text_from(n, start, chunk_size, overlap) ==
    IF ~(start < n) THEN << >>
    ELSE LET end == IF start + chunk_size < n THEN start + chunk_size ELSE n
         IN  IF end >= n THEN << <<start, end>> >>
             ELSE << <<start, end>> >> \o chunk_text_from(n, end - overlap, chunk_size, overlap)

\* chunk_text(text, chunk_size, overlap): the positions of the chunks
chunk_text(text, chunk_size, overlap) == chunk_text_from(Len(text), 0, chunk_size, overlap)

---------------------------------------------------------------------------
(* Inputs: what the extraction layer and the inference provider hand over  *)

\* the bound on the number of detections the provider reports for a document
MaxDetections == 3

\* "#5 Int. Back Yard Of The Old Farm House - Day"
Slug_Yard == <<"#", "5", " ", "I", "n", "t", ".", " ", "B", "a", "c", "k", " ", "Y", "a", "r", "d", " ", "O", "f", " ", "T", "h", "e", " ", "O", "l", "d", " ", "F", "a", "r", "m", " ", "H", "o", "u", "s", "e", " ", "-", " ", "D", "a", "y">>
\* "Ext. Old Mill Road By The River Bank - Continuous #5"
Slug_Road == <<"E", "x", "t", ".", " ", "O", "l", "d", " ", "M", "i", "l", "l", " ", "R", "o", "a", "d", " ", "B", "y", " ", "T", "h", "e", " ", "R", "i", "v", "e", "r", " ", "B", "a", "n", "k", " ", "-", " ", "C", "o", "n", "t", "i", "n", "u", "o", "u", "s", " ", "#", "5">>
\* "Int. Hall (en dash) Same"
Slug_Hall == <<"I", "n", "t", ".", " ", "H", "a", "l", "l", " ", "EN", " ", "S", "a", "m", "e">>

\* the scene_data dicts a provider reply may hold.  provider_confidence is the
\* confidence the provider itself puts on its page estimate, in hundredths, as
\* the specification describes a fragment; LLMSceneOutput declares no such
\* field, so validation drops it and no code reads it.  The last two are a
\* dict without one_liner and a dict whose text holds a lone surrogate.
SceneData ==
    { [slugline_raw |-> Slug_Yard, full_scene_text |-> Slug_Yard \o <<"NL", "J", "o", "e", " ", "w", "a", "i", "t", "s", ".">>,
       one_liner |-> <<"x">>, llm_estimated_start_page |-> 3, provider_confidence |-> 90],
      [slugline_raw |-> Slug_Road, full_scene_text |-> Slug_Road \o <<"NL", "a", "b">>,
       one_liner |-> <<"x">>, llm_estimated_start_page |-> 2, provider_confidence |-> 90],
      [slugline_raw |-> Slug_Road, full_scene_text |-> Slug_Road \o <<"NL", "A", "B">>,
       one_liner |-> <<"x">>, llm_estimated_start_page |-> 0, provider_confidence |-> 0],
      [slugline_raw |-> Slug_Road, full_scene_text |-> Slug_Road \o <<"NL", " ", "A", "b", " ", "NL">>,
       one_liner |-> <<"x">>, llm_estimated_start_page |-> 1, provider_confidence |-> 55],
      [slugline_raw |-> Slug_Road, full_scene_text |-> Slug_Road \o <<"NL", "a", "b", "x">>,
       one_liner |-> <<"x">>, llm_estimated_start_page |-> 0, provider_confidence |-> 0],
      [slugline_raw |-> Slug_Hall, full_scene_text |-> Slug_Hall \o <<"NL", "q">>,
       one_liner |-> <<"x">>, llm_estimated_start_page |-> 2, provider_confidence |-> 55],
      [slugline_raw |-> Slug_Hall, full_scene_text |-> Slug_Hall \o <<"NL", "r">>,
       one_liner |-> <<"x">>, llm_estimated_start_page |-> 0, provider_confidence |-> 0],
      [slugline_raw |-> Slug_Yard, full_scene_text |-> Slug_Yard \o <<"NL", "J", "o", "e", ".">>,
       llm_estimated_start_page |-> 1, provider_confidence |-> 90],
      [slugline_raw |-> Slug_Hall, full_scene_text |-> Slug_Hall \o <<"NL", "q", "r", "s", "t", "SURR">>,
       one_liner |-> <<"x">>, llm_estimated_start_page |-> 0, provider_confidence |-> 0] }

\* src/src/core/llm_connector.py
required_fields == {"slugline_raw", "full_scene_text", "one_liner"}

\* _validate_scene_output returns a scene, not None
has_required_fields(scene_data) == required_fields \subseteq DOMAIN scene_data

\* LLMSceneOutput(**scene_data): the fields the aggregator reads; a key the
\* class does not declare is ignored
LLMSceneOutput(scene_data) ==
    [slugline_raw |-> scene_data.slugline_raw,
     full_scene_text |-> scene_data.full_scene_text,
     llm_estimated_start_page |-> scene_data.llm_estimated_start_page]

\* the loop of analyze_chunk over scenes_data: the scenes that validate, in order
validated_scenes(scenes_data) ==
    LET valid == SelectSeq(scenes_data, has_required_fields)
    IN  AsSeq([i \in 1..Len(valid) |-> LLMSceneOutput(valid[i])])

\* the LLMSceneOutput values a ChunkResult may hold
LLMOutputs == {LLMSceneOutput(d) : d \in {e \in SceneData : has_required_fields(e)}}

\* the text blocks PyMuPDF reports for a two-page document: text and y0
LayoutBlocks ==
    << << [text |-> <<"E", "x", "t", ".", " ", "O", "l", "d", " ", "M", "i", "l", "l", " ", "R", "o", "a", "d", " ", "B", "y", " ", "T", "h", "e", " ", "R", "i", "v", "e", "r", "NL", "B", "a", "n", "k", " ", "-", " ", "C", "o", "n", "t", "i", "n", "u", "o", "u", "s", " ", "#", "5">>, y0 |-> 72],
          [text |-> <<"I", "n", "t", ".", " ", "H", "a", "l", "l", " ", "-", " ", "S", "a", "m", "e">>, y0 |-> 400] >>,
       << [text |-> <<"#", "5", " ", "I", "n", "t", ".", " ", "B", "a", "c", "k", " ", "Y", "a", "r", "d", " ", "O", "f", " ", "T", "h", "e", " ", "O", "l", "d", " ", "F", "a", "r", "m", "NL", "H", "o", "u", "s", "e", " ", "-", " ", "D", "a", "y">>, y0 |-> 72],
          [text |-> <<"E", "x", "t", ".", " ", "O", "l", "d", " ", "M", "i", "l", "l", " ", "R", "o", "a", "d", " ", "B", "y", " ", "T", "h", "e", " ", "R", "i", "v", "e", "r", " ", "B", "a", "n", "k", " ", "-", " ", "C", "o", "n", "t", "i", "n", "u", "o", "u", "s", " ", "#", "7">>, y0 |-> 300],
          [text |-> <<"I", "n", "t", ".", " ", "H", "a", "l", "l", " ", "-", " ", "S", "a", "m", "e">>, y0 |-> 500] >> >>

\* _extract_with_layout: a page's text is its blocks' text, a newline after each
RECURSIVE PageTextOfBlocks(_)
PageTextOfBlocks(blocks) ==
    IF blocks = << >> THEN << >>
    ELSE Head(blocks).text \o <<"NL">> \o PageTextOfBlocks(Tail(blocks))

RECURSIVE SumLen(_)
SumLen(pages) == IF pages = << >> THEN 0 ELSE Len(Head(pages)) + SumLen(Tail(pages))

\* sum(per_page_char_count) / len(per_page_char_count) if per_page_char_count else 0
AverageCharsPerPage(pages) ==
    IF pages = << >> THEN <<0, 1>> ELSE <<SumLen(pages), Len(pages)>>

\* _extract_basic: page texts, no layout blocks
ExtractBasic(pages) ==
    [pages_text |-> pages,
     pdf_metadata |-> [average_chars_per_page |-> AverageCharsPerPage(pages),
                       extraction_method |-> "basic",
                       layout_blocks |-> << >>,
                       page_dimensions |-> << >>]]

\* _extract_with_layout: page texts from the blocks, blocks and page sizes kept
ExtractWithLayout(layout, dims) ==
    LET pages == [i \in 1..Len(layout) |-> PageTextOfBlocks(layout[i])]
    IN  [pages_text |-> pages,
         pdf_metadata |-> [average_chars_per_page |-> AverageCharsPerPage(pages),
                           extraction_method |-> "layout",
                           layout_blocks |-> layout,
                           page_dimensions |-> dims]]

\* the documents: no page, one empty page, two pages of prose that quote no
\* heading (basic extraction), and the two pages of LayoutBlocks
Extractions ==
    { ExtractBasic(<< >>),
      ExtractBasic(<< << >> >>),
      ExtractBasic(<< <<"F", "a", "d", "e", " ", "i", "n", ".", "NL", "J", "o", "e", " ", "w", "a", "i", "t", "s", ".", "NL">>, <<"T", "h", "e", " ", "e", "n", "d", ".", "NL">> >>),
      ExtractWithLayout(LayoutBlocks, << <<612, 792>>, <<612, 792>> >>) }

\* ProcessingConfig values (the fields the pipeline reads)
Configs ==
    { [chunk_size |-> 120, overlap |-> 20, first_chars_for_hash |-> 200,
       auto_bulk_time_inference |-> TRUE],
      [chunk_size |-> 2500, overlap |-> 300, first_chars_for_hash |-> 4,
       auto_bulk_time_inference |-> FALSE] }

\* pdf_path.stem
Filenames == { <<"s", "c", "r", "i", "p", "t">> }

---------------------------------------------------------------------------
(* State                                                                   *)

VARIABLES
    pc,              \* the step the pipeline is at
    config,          \* ProcessingConfig
    filename,        \* pdf_path.stem
    pages_text,      \* extract_pdf_text: one string per page
    pdf_metadata,    \* extract_pdf_text: the metadata dict
    chunks,          \* chunk_text(full_text, ...): <<start, end>> per chunk
    provider_replies, \* per chunk, what the provider call gave: the parsed
                     \* scenes_data list, or raised when the call failed
    chunk_results,   \* _process_chunks: the ChunkResult list built so far
    scene_fragments, \* aggregate_scenes: the fragments of step 1
    grouped_scenes,  \* aggregate_scenes: the dict of step 2, in insertion order
    scenes,          \* aggregate_scenes: the scene list of steps 3 to 7
    returned,        \* what aggregate_scenes returned (empty before it returns)
    current_results, \* app.py: the global the upload handler stores the results in
    update_requests, \* app.py: the update_scene requests handled so far
    call             \* a call of a text utility on its own: arguments and result

vars == <<pc, config, filename, pages_text, pdf_metadata, chunks, provider_replies,
          chunk_results, scene_fragments, grouped_scenes, scenes, returned,
          current_results, update_requests, call>>

\* what the pipeline leaves alone
app_state == <<current_results, update_requests, call>>

inputs == <<config, filename, pages_text, pdf_metadata, chunks>>

\* "\n\n".join(f"PAGE {i+1}:\n{text}" ...)
full_text(pages) ==
    Join(<<"NL", "NL">>, [i \in 1..Len(pages) |-> <<"P", "A", "G", "E", " ">> \o DecimalDigits(i) \o <<":", "NL">> \o pages[i]])

Init ==
    /\ pc = "process_chunks"
    /\ config \in Configs
    /\ filename \in Filenames
    /\ \E x \in Extractions :
          /\ pages_text = x.pages_text
          /\ pdf_metadata = x.pdf_metadata
    /\ chunks = chunk_text(full_text(pages_text), config.chunk_size, config.overlap)
    /\ provider_replies = << >>
    /\ chunk_results = << >>
    /\ scene_fragments = << >>
    /\ grouped_scenes = << >>
    /\ scenes = << >>
    /\ returned = << >>
    /\ current_results = [success |-> FALSE, scenes |-> << >>]
    /\ update_requests = << >>
    /\ call = [fn |-> "none"]

---------------------------------------------------------------------------
(* src/src/core/pipeline.py: _process_chunks                               *)

\* a faulty chunk id that counts the chunks from one
chunk_id_one_based(i) == <<"c", "h", "u", "n", "k", "_">> \o Format03d(i + 1)

\* f"chunk_{i:03d}"
chunk_id_of(i) == <<"c", "h", "u", "n", "k", "_">> \o Format03d(i)

RECURSIVE CountDetections(_)
CountDetections(replies) ==
    IF replies = << >> THEN 0
    ELSE Len(Head(replies).scenes_data) + CountDetections(Tail(replies))

\* the lists of at most n scene_data dicts
RECURSIVE SceneDataLists(_)
SceneDataLists(n) ==
    IF n = 0 THEN {<< >>}
    ELSE SceneDataLists(n - 1)
         \cup {Append(l, d) : l \in {m \in SceneDataLists(n - 1) : Len(m) = n - 1}, d \in SceneData}

\* one round of the loop: analyze_chunk parses the reply, validates each
\* scene_data and returns a ChunkResult with the scenes that validate
AnalyzeChunk ==
    /\ pc = "process_chunks"
    /\ Len(chunk_results) < Len(chunks)
    /\ \E found \in SceneDataLists(MaxDetections - CountDetections(provider_replies)) :
          /\ provider_replies' = Append(provider_replies, [raised |-> FALSE, scenes_data |-> found])
          /\ chunk_results' = Append(chunk_results,
                 [chunk_id |-> chunk_id_of(Len(chunk_results)),
                  scenes |-> validated_scenes(found)])
    /\ UNCHANGED <<pc, inputs, app_state, scene_fragments, grouped_scenes, scenes, returned>>

\* one round of the loop: the provider call raises, the chunk gets an empty
\* result (from the except clause of analyze_chunk or of _process_chunks)
AnalyzeChunkFails ==
    /\ pc = "process_chunks"
    /\ Len(chunk_results) < Len(chunks)
    /\ provider_replies' = Append(provider_replies, [raised |-> TRUE, scenes_data |-> << >>])
    /\ chunk_results' = Append(chunk_results,
           [chunk_id |-> chunk_id_of(Len(chunk_results)), scenes |-> << >>])
    /\ UNCHANGED <<pc, inputs, app_state, scene_fragments, grouped_scenes, scenes, returned>>

---------------------------------------------------------------------------
(* src/src/core/aggregator.py                                              *)
(* Scene fields that nothing reads or writes after collection (int_ext,    *)
(* the raw location fields, the character counts, one_liner, continuation, *)
(* canonical_suggestions, confidence_overall) are left out.                *)

\* the body of the try block: the Scene built from one detection of one chunk
scene_fragment(llm_scene, chunk_id, fname, first_chars_for_hash) ==
    LET slugline_norm == normalize_slugline(llm_scene.slugline_raw)
        scene_number_raw == extract_scene_number(llm_scene.slugline_raw)
        following_text ==
            str_strip(Suffix(llm_scene.full_scene_text, Len(llm_scene.slugline_raw)))
        scene_id == compute_scene_id(slugline_norm, scene_number_raw, following_text,
                                     fname, first_chars_for_hash)
        location == extract_location_components(llm_scene.slugline_raw)
    IN  [scene_id |-> scene_id,
         scene_label |-> slugline_norm \o <<" ", "|", " ", "#">> \o scene_number_raw
                             \o <<" ", "|", " ", "c", "h", "u", "n", "k", "s", ":">> \o chunk_id,
         order |-> 0,
         slugline_raw |-> llm_scene.slugline_raw,
         slugline_normalized |-> slugline_norm,
         time_raw |-> extract_time_raw(llm_scene.slugline_raw),
         time_canonical |-> "UNKNOWN",
         time_inferred_from_previous |-> FALSE,
         scene_number_raw |-> scene_number_raw,
         scene_number_canonical |->
             IF scene_number_raw # << >> THEN scene_number_raw ELSE <<"P", "L", "A", "C", "E", "H", "O", "L", "D", "E", "R">>,
         page_start |-> IF llm_scene.llm_estimated_start_page # 0
                        THEN llm_scene.llm_estimated_start_page ELSE 1,
         raw_length_pages |-> <<0, 1>>,
         rounded_length_pages |-> 1,
         page_end_float |-> 0,
         page_end_int |-> 1,
         master_location_canonical |-> location[1],
         sub_location_canonical |-> location[2],
         full_scene_text |-> llm_scene.full_scene_text,
         scene_chars |-> Len(llm_scene.full_scene_text),
         source_chunk_ids |-> <<chunk_id>>,
         confidences |-> [start_page_confidence |->
                              IF llm_scene.llm_estimated_start_page # 0 THEN 60 ELSE 30,
                          length_confidence |-> 50],
         provenance |-> [start_page_source |-> "llm_estimate",
                         length_source |-> "char_avg"],
         flagged_for_review |-> FALSE,
         notes |-> << >>]

\* the chunk ids _process_chunks can hand out for the documents and configurations
ChunkIds ==
    {chunk_id_of(i) : i \in 0..(MaxDetections + 8)} \cap
    UNION {{chunk_id_of(i - 1) :
               i \in 1..Len(chunk_text(full_text(x.pages_text), c.chunk_size, c.overlap))} :
           x \in Extractions, c \in Configs}

\* the try block raises for this detection: compute_scene_id is its only
\* statement that can, for a validated LLMSceneOutput
fragment_raises(llm_scene, fname, first_chars_for_hash) ==
    compute_scene_id_raises(
        normalize_slugline(llm_scene.slugline_raw),
        extract_scene_number(llm_scene.slugline_raw),
        str_strip(Suffix(llm_scene.full_scene_text, Len(llm_scene.slugline_raw))),
        fname, first_chars_for_hash)

\* scene_fragment, evaluated once for every detection; raised where the try
\* block raises
SceneFragmentTable ==
    [d \in LLMOutputs, c \in ChunkIds, f \in Filenames,
     n \in {cfg.first_chars_for_hash : cfg \in Configs} |->
        IF fragment_raises(d, f, n) THEN [raised |-> TRUE]
        ELSE [raised |-> FALSE, scene |-> scene_fragment(d, c, f, n)]]
    @@ << >>

\* a faulty inner loop that leaves the chunk at the first detection that raises
RECURSIVE fragments_until_raise(_, _, _, _)
fragments_until_raise(llm_scenes, chunk_id, fname, cfg) ==
    IF llm_scenes = << >> THEN << >>
    ELSE LET made == SceneFragmentTable[Head(llm_scenes), chunk_id, fname,
                                        cfg.first_chars_for_hash]
         IN  IF made.raised THEN << >>
             ELSE << <<made.scene, chunk_id>> >>
                  \o fragments_until_raise(Tail(llm_scenes), chunk_id, fname, cfg)

\* the inner loop: the fragments of one chunk result; a detection for which
\* the try block raises is logged and skipped (except ... continue)
RECURSIVE fragments_of_chunk(_, _, _, _)
fragments_of_chunk(llm_scenes, chunk_id, fname, cfg) ==
    IF llm_scenes = << >> THEN << >>
    ELSE LET made == SceneFragmentTable[Head(llm_scenes), chunk_id, fname,
                                        cfg.first_chars_for_hash]
         IN  (IF made.raised THEN << >> ELSE << <<made.scene, chunk_id>> >>)
             \o fragments_of_chunk(Tail(llm_scenes), chunk_id, fname, cfg)

\* _collect_scene_fragments: a list of <<Scene, chunk_id>>
RECURSIVE _collect_scene_fragments(_, _, _)
_collect_scene_fragments(results, fname, cfg) ==
    IF results = << >> THEN << >>
    ELSE fragments_of_chunk(Head(results).scenes, Head(results).chunk_id, fname, cfg)
         \o _collect_scene_fragments(Tail(results), fname, cfg)

\* a faulty grouping that opens a new group for every fragment
GroupAppendNew(groups, scene) ==
    Append(groups, [scene_id |-> scene.scene_id, fragments |-> <<scene>>])

\* groups[scene.scene_id].append(scene) on a dict kept in insertion order
GroupAppend(groups, scene) ==
    IF \E k \in 1..Len(groups) : groups[k].scene_id = scene.scene_id
    THEN AsSeq([k \in 1..Len(groups) |->
                  IF groups[k].scene_id = scene.scene_id
                  THEN [groups[k] EXCEPT !.fragments = Append(@, scene)]
                  ELSE groups[k]])
    ELSE Append(groups, [scene_id |-> scene.scene_id, fragments |-> <<scene>>])

\* _group_scene_fragments: the dict as a list of [scene_id, fragments] items
RECURSIVE GroupInto(_, _)
GroupInto(groups, fragments) ==
    IF fragments = << >> THEN groups
    ELSE GroupInto(GroupAppend(groups, Head(fragments)[1]), Tail(fragments))

_group_scene_fragments(fragments) == GroupInto(<< >>, fragments)

\* a faulty choice of the base scene: the first fragment, whatever its length
base_scene_first(fragments) == fragments[1]

\* max(fragments, key=lambda s: len(s.full_scene_text)): the first of the longest
base_scene_of(fragments) ==
    LET longest == {i \in 1..Len(fragments) :
                       \A j \in 1..Len(fragments) :
                           Len(fragments[j].full_scene_text) <= Len(fragments[i].full_scene_text)}
    IN  fragments[Least(longest)]

\* list(set(ids)): the distinct ids in the order the set happens to iterate,
\* which for str elements changes with the interpreter's hash seed
ListOfSet(ids) ==
    LET S == SeqRange(ids)
    IN  {p \in [1..Cardinality(S) -> S] : \A a \in S : \E i \in 1..Cardinality(S) : p[i] = a}

\* a faulty note that counts the distinct chunks instead of the fragments
merge_note_of_chunks(fragments) ==
    <<"M", "e", "r", "g", "e", "d", " ", "f", "r", "o", "m", " ">>
        \o DecimalDigits(Cardinality({fragments[i].source_chunk_ids : i \in 1..Len(fragments)}))
        \o <<" ", "c", "h", "u", "n", "k", "s">>

\* f"Merged from {len(fragments)} chunks"
merge_note(fragments) ==
    <<"M", "e", "r", "g", "e", "d", " ", "f", "r", "o", "m", " ">>
        \o DecimalDigits(Len(fragments)) \o <<" ", "c", "h", "u", "n", "k", "s">>

\* a faulty merge that leaves the review flag as the base scene has it
_merge_fragments_unflagged(fragments) ==
    LET base_scene == base_scene_of(fragments)
        all_chunk_ids == Flatten(AsSeq([i \in 1..Len(fragments) |-> fragments[i].source_chunk_ids]))
    IN  {[base_scene EXCEPT
            !.source_chunk_ids = ids,
            !.scene_label = base_scene.slugline_normalized \o <<" ", "|", " ", "#">>
                                \o base_scene.scene_number_raw \o <<" ", "|", " ", "c", "h", "u", "n", "k", "s", ":">>
                                \o Join(<<",">>, all_chunk_ids),
            !.notes = IF Len(fragments) > 1 THEN merge_note(fragments) ELSE @] : ids \in ListOfSet(all_chunk_ids)}

\* _merge_fragments: the scenes it may return
_merge_fragments(fragments) ==
    LET base_scene == base_scene_of(fragments)
        all_chunk_ids == Flatten(AsSeq([i \in 1..Len(fragments) |-> fragments[i].source_chunk_ids]))
    IN  {[base_scene EXCEPT
            !.source_chunk_ids = ids,
            !.scene_label = base_scene.slugline_normalized \o <<" ", "|", " ", "#">>
                                \o base_scene.scene_number_raw \o <<" ", "|", " ", "c", "h", "u", "n", "k", "s", ":">>
                                \o Join(<<",">>, all_chunk_ids),
            !.flagged_for_review = IF Len(fragments) > 1 THEN TRUE ELSE @,
            !.notes = IF Len(fragments) > 1 THEN merge_note(fragments) ELSE @] : ids \in ListOfSet(all_chunk_ids)}

\* _merge_scene_groups: the scene lists it may return
RECURSIVE _merge_scene_groups(_)
_merge_scene_groups(groups) ==
    IF groups = << >> THEN {<< >>}
    ELSE LET first == IF Len(Head(groups).fragments) = 1
                      THEN {Head(groups).fragments[1]}
                      ELSE _merge_fragments(Head(groups).fragments)
         IN  {<<m>> \o rest : m \in first, rest \in _merge_scene_groups(Tail(groups))}

\* the number of characters of the heading searched in the page texts
SearchChars == 50

\* the number of characters of the heading searched in the layout blocks
LayoutSearchChars == 30

\* the page height used when the page has no recorded dimensions
DefaultPageHeight == 792

\* the loop over pages_text: the first page whose upper-cased text holds the
\* search text, 0 when none does
substring_match_page(pages, slugline_normalized) ==
    LET search_text == Prefix(slugline_normalized, SearchChars)
        hits == {n \in 1..Len(pages) : Contains(search_text, str_upper(pages[n]))}
    IN  IF hits = {} THEN 0 ELSE Least(hits)

\* _find_in_layout_blocks: <<page, <<y0, page_height>>>> of the first block, in
\* page then block order, that holds the heading's first characters; << >> for None
_find_in_layout_blocks(metadata, slugline_norm) ==
    LET layout_blocks == metadata.layout_blocks
        page_dimensions == metadata.page_dimensions
        hit(p, b) == Contains(Prefix(slugline_norm, LayoutSearchChars),
                              str_upper(layout_blocks[p][b].text))
        pages == {p \in 1..Len(layout_blocks) : \E b \in 1..Len(layout_blocks[p]) : hit(p, b)}
    IN  IF pages = {} THEN << >>
        ELSE LET p == Least(pages)
                 b == Least({k \in 1..Len(layout_blocks[p]) : hit(p, k)})
                 page_height == IF p - 1 < Len(page_dimensions)
                                THEN page_dimensions[p][2] ELSE DefaultPageHeight
             IN  <<p, <<layout_blocks[p][b].y0, page_height>> >>

\* a faulty chain that asks the layout blocks before the page texts
layout_or_text_match(pages, metadata, slugline_normalized) ==
    IF metadata.layout_blocks # << >>
         /\ _find_in_layout_blocks(metadata, slugline_normalized) # << >>
    THEN <<_find_in_layout_blocks(metadata, slugline_normalized)[1], 100, "layout_match">>
    ELSE IF substring_match_page(pages, slugline_normalized) # 0
         THEN <<substring_match_page(pages, slugline_normalized), 100, "substring_match">>
         ELSE << >>

\* the first two steps of _find_scene_start_page: <<page, confidence, source>>,
\* << >> when both fail
text_or_layout_match(pages, metadata, slugline_normalized) ==
    IF substring_match_page(pages, slugline_normalized) # 0
    THEN <<substring_match_page(pages, slugline_normalized), 100, "substring_match">>
    ELSE IF metadata.layout_blocks # << >>
              /\ _find_in_layout_blocks(metadata, slugline_normalized) # << >>
         THEN <<_find_in_layout_blocks(metadata, slugline_normalized)[1], 100, "layout_match">>
         ELSE << >>

\* text_or_layout_match, evaluated once for every document and heading
TextOrLayoutTable ==
    [x \in Extractions, s \in {normalize_slugline(d.slugline_raw) : d \in LLMOutputs} |->
        text_or_layout_match(x.pages_text, x.pdf_metadata, s)]
    @@ << >>

\* the confidence a provider estimate must exceed, in hundredths
LLMConfidenceGate == 65

\* a faulty fallback that keeps the page the scene was collected with
estimate_or_collected_page(scene) ==
    LET llm_page == scene.page_start
        llm_confidence == scene.confidences.start_page_confidence
    IN  IF llm_confidence > LLMConfidenceGate
        THEN <<llm_page, llm_confidence, "llm_estimate">>
        ELSE <<llm_page, 30, "inferred_order">>

\* the last two steps of _find_scene_start_page
estimate_or_fallback(scene) ==
    LET llm_page == scene.page_start
        llm_confidence == scene.confidences.start_page_confidence
    IN  IF llm_confidence > LLMConfidenceGate
        THEN <<llm_page, llm_confidence, "llm_estimate">>
        ELSE <<1, 30, "inferred_order">>

\* _find_scene_start_page: <<start_page, confidence, source>>
_find_scene_start_page(pages, metadata, scene) ==
    LET found == TextOrLayoutTable[[pages_text |-> pages, pdf_metadata |-> metadata],
                                   scene.slugline_normalized]
    IN  IF found # << >> THEN found ELSE estimate_or_fallback(scene)

\* _compute_layout_length: the stub returns None
_compute_layout_length(scene) == << >>

\* scene_chars / avg_chars_per_page divides by zero
LengthRaises(metadata) == metadata.average_chars_per_page[1] = 0

\* a faulty length computation that records the third source Provenance admits
compute_length_as_estimate(metadata, scene) ==
    <<<<scene.scene_chars * metadata.average_chars_per_page[2],
        metadata.average_chars_per_page[1]>>, "llm_estimate">>

\* _compute_scene_length: <<raw_length, length_source>>, where it does not raise.
\* The float quotient is taken as the exact rational: the documents here have
\* one or two pages, so the average is exact and the quotient is never within
\* rounding distance of an eighth it does not equal.
_compute_scene_length(metadata, scene) ==
    IF metadata.layout_blocks # << >> /\ _compute_layout_length(scene) # << >>
    THEN <<_compute_layout_length(scene)[1], "layout">>
    ELSE <<<<scene.scene_chars * metadata.average_chars_per_page[2],
             metadata.average_chars_per_page[1]>>, "char_avg">>

\* a faulty confidence that takes every length for layout-derived
layout_confidence(length_source) == 80

\* 0.8 if length_source == "layout" else 0.6, in hundredths
length_confidence_of(length_source) == IF length_source = "layout" THEN 80 ELSE 60

\* the body of the loop of _resolve_positions for one scene
positioned(pages, metadata, scene) ==
    LET start == _find_scene_start_page(pages, metadata, scene)
        length == _compute_scene_length(metadata, scene)
        rounded_length == round_to_eighth(length[1])
        \* start_page - 1 + rounded_length, in eighths
        page_end_float == (start[1] - 1) * 8 + rounded_length
    IN  [scene EXCEPT
            !.page_start = start[1],
            !.raw_length_pages = length[1],
            !.rounded_length_pages = rounded_length,
            !.page_end_float = page_end_float,
            !.page_end_int = CeilDiv(page_end_float, 8),
            !.confidences.start_page_confidence = start[2],
            !.confidences.length_confidence = length_confidence_of(length[2]),
            !.provenance.start_page_source = start[3],
            !.provenance.length_source = length[2]]

\* a faulty sort key: s.page_start alone
page_key_less(a, b) == a.page_start < b.page_start

\* the sort key (s.page_start, s.slugline_raw) of a is less than that of b
position_key_less(a, b) ==
    \/ a.page_start < b.page_start
    \/ a.page_start = b.page_start /\ StrLess(a.slugline_raw, b.slugline_raw)

\* the sort key s.order of a is less than that of b
order_key_less(a, b) == a.order < b.order

\* the key named by sort_key of a is less than that of b
key_less(sort_key, a, b) ==
    IF sort_key = "position" THEN position_key_less(a, b) ELSE order_key_less(a, b)

\* list.sort(key=...): a stable sort; an element goes behind the elements with
\* a smaller key and behind the earlier elements with an equal key
StableSort(list, sort_key) ==
    LET n == Len(list)
        before(j, i) == \/ key_less(sort_key, list[j], list[i])
                        \/ ~key_less(sort_key, list[i], list[j]) /\ j < i
        rank(i) == Cardinality({j \in 1..n : before(j, i)}) + 1
    IN  AsSeq([r \in 1..n |-> list[CHOOSE i \in 1..n : rank(i) = r]])

sort_by_position(list) == StableSort(list, "position")

sort_by_order(list) == StableSort(list, "order")

\* for i, scene in enumerate(positioned_scenes, 1): scene.order = i
with_order(list) == AsSeq([i \in 1..Len(list) |-> [list[i] EXCEPT !.order = i]])

\* _resolve_positions, where no length computation raises
_resolve_positions(pages, metadata, list) ==
    with_order(sort_by_position(
        AsSeq([i \in 1..Len(list) |-> positioned(pages, metadata, list[i])])))

\* a faulty loop that copies the previous scene's own marker, not its resolved one
RECURSIVE time_loop_unresolved(_, _, _)
time_loop_unresolved(done, rest, auto_bulk_time_inference) ==
    IF rest = << >> THEN done
    ELSE LET scene == Head(rest)
             ct == canonicalize_time(scene.time_raw)
             bulk == /\ ct[2]
                     /\ Len(done) > 0
                     /\ auto_bulk_time_inference
                     /\ ct[1] \in {"CONTINUOUS", "SAME_AS_PREVIOUS"}
         IN  time_loop_unresolved(
                 Append(done, [scene EXCEPT
                     !.time_canonical =
                         IF bulk THEN canonicalize_time(done[Len(done)].time_raw)[1] ELSE ct[1],
                     !.time_inferred_from_previous = ct[2]]),
                 Tail(rest), auto_bulk_time_inference)

\* a faulty loop that clears the inferred flag of a scene it resolves
RECURSIVE time_loop_flag_cleared(_, _, _)
time_loop_flag_cleared(done, rest, auto_bulk_time_inference) ==
    IF rest = << >> THEN done
    ELSE LET scene == Head(rest)
             ct == canonicalize_time(scene.time_raw)
             bulk == /\ ct[2]
                     /\ Len(done) > 0
                     /\ auto_bulk_time_inference
                     /\ ct[1] \in {"CONTINUOUS", "SAME_AS_PREVIOUS"}
         IN  time_loop_flag_cleared(
                 Append(done, [scene EXCEPT
                     !.time_canonical = IF bulk THEN done[Len(done)].time_canonical ELSE ct[1],
                     !.time_inferred_from_previous = ct[2] /\ ~bulk]),
                 Tail(rest), auto_bulk_time_inference)

\* the loop of _apply_time_canonicalization over the scenes from index i on;
\* done holds the scenes already processed, with their final markers
RECURSIVE time_loop(_, _, _)
time_loop(done, rest, auto_bulk_time_inference) ==
    IF rest = << >> THEN done
    ELSE LET scene == Head(rest)
             ct == canonicalize_time(scene.time_raw)
             bulk == /\ ct[2]
                     /\ Len(done) > 0
                     /\ auto_bulk_time_inference
                     /\ ct[1] \in {"CONTINUOUS", "SAME_AS_PREVIOUS"}
         IN  time_loop(
                 Append(done, [scene EXCEPT
                     !.time_canonical = IF bulk THEN done[Len(done)].time_canonical ELSE ct[1],
                     !.time_inferred_from_previous = ct[2]]),
                 Tail(rest), auto_bulk_time_inference)

_apply_time_canonicalization(list, cfg) == time_loop(<< >>, list, cfg.auto_bulk_time_inference)

\* a faulty chr that is one code point ahead
chr_next(n) == Ascii[n - 30]

\* chr(n) for the printable ASCII range
chr(n) == Ascii[n - 31]

\* the effect of both loops of _process_scene_numbers on the scene at index j
numbered(list, j) ==
    LET scene == list[j]
        number == scene.scene_number_raw
        \* number_counts[number]: the scenes with this raw number, in list order
        scene_list == {k \in 1..Len(list) : list[k].scene_number_raw = number}
        i == Cardinality({k \in scene_list : k < j})
        placeholder == generate_placeholder_scene_number(scene.order, scene.scene_id)
    IN  IF number # << >>
        THEN IF Cardinality(scene_list) > 1
             THEN IF i = 0
                  THEN [scene EXCEPT
                          !.flagged_for_review = TRUE,
                          !.scene_number_canonical = number,
                          !.notes = @ \o <<" ", "|", " ", "O", "r", "i", "g", "i", "n", "a", "l", " ", "s", "c", "e", "n", "e", " ", "n", "u", "m", "b", "e", "r", " ">> \o number]
                  ELSE [scene EXCEPT
                          !.flagged_for_review = TRUE,
                          !.scene_number_canonical = number \o <<"_", chr(65 + i - 1)>>,
                          !.notes = @ \o <<" ", "|", " ", "D", "u", "p", "l", "i", "c", "a", "t", "e", " ", "o", "f", " ", "s", "c", "e", "n", "e", " ">> \o number
                                      \o <<",", " ", "s", "u", "g", "g", "e", "s", "t", "e", "d", " ", "s", "u", "f", "f", "i", "x", " ", "_">> \o <<chr(65 + i - 1)>>]
             ELSE scene
        ELSE [scene EXCEPT
                !.scene_number_canonical = placeholder,
                !.notes = @ \o <<" ", "|", " ", "A", "u", "t", "o", "-", "g", "e", "n", "e", "r", "a", "t", "e", "d", " ", "p", "l", "a", "c", "e", "h", "o", "l", "d", "e", "r", ":", " ">> \o placeholder]

_process_scene_numbers(list) == AsSeq([j \in 1..Len(list) |-> numbered(list, j)])

---------------------------------------------------------------------------
(* aggregate_scenes, one action per step.  scene_fragments and             *)
(* grouped_scenes keep the value their step returned; the later in-place   *)
(* changes of the Scene objects are shown in scenes.                       *)

\* a faulty _process_chunks that may return from inside its loop
returned_in_loop(results, chunk_list) == Len(results) <= Len(chunk_list)

\* _process_chunks returns when its loop over chunks is exhausted
loop_exhausted(results, chunk_list) == Len(results) = Len(chunk_list)

\* Step 1, entered when _process_chunks has returned
CollectSceneFragments ==
    /\ pc = "process_chunks"
    /\ loop_exhausted(chunk_results, chunks)
    /\ scene_fragments' = _collect_scene_fragments(chunk_results, filename, config)
    /\ pc' = "group"
    /\ UNCHANGED <<inputs, app_state, provider_replies, chunk_results, grouped_scenes, scenes, returned>>

\* Step 2
GroupSceneFragments ==
    /\ pc = "group"
    /\ grouped_scenes' = _group_scene_fragments(scene_fragments)
    /\ pc' = "merge"
    /\ UNCHANGED <<inputs, app_state, provider_replies, chunk_results, scene_fragments, scenes, returned>>

\* Step 3
MergeSceneGroups ==
    /\ pc = "merge"
    /\ scenes' \in _merge_scene_groups(grouped_scenes)
    /\ pc' = "resolve"
    /\ UNCHANGED <<inputs, app_state, provider_replies, chunk_results, scene_fragments, grouped_scenes, returned>>

\* Step 4
ResolvePositions ==
    /\ pc = "resolve"
    /\ scenes = << >> \/ ~LengthRaises(pdf_metadata)
    /\ scenes' = _resolve_positions(pages_text, pdf_metadata, scenes)
    /\ pc' = "time"
    /\ UNCHANGED <<inputs, app_state, provider_replies, chunk_results, scene_fragments, grouped_scenes, returned>>

\* Step 4 when the first length computation divides by zero: ZeroDivisionError
\* leaves aggregate_scenes
ResolvePositionsRaises ==
    /\ pc = "resolve"
    /\ scenes # << >> /\ LengthRaises(pdf_metadata)
    /\ pc' = "raised"
    /\ UNCHANGED <<inputs, app_state, provider_replies, chunk_results, scene_fragments, grouped_scenes, scenes, returned>>

\* Step 5
ApplyTimeCanonicalization ==
    /\ pc = "time"
    /\ scenes' = _apply_time_canonicalization(scenes, config)
    /\ pc' = "numbers"
    /\ UNCHANGED <<inputs, app_state, provider_replies, chunk_results, scene_fragments, grouped_scenes, returned>>

\* Step 6
ProcessSceneNumbers ==
    /\ pc = "numbers"
    /\ scenes' = _process_scene_numbers(scenes)
    /\ pc' = "sort"
    /\ UNCHANGED <<inputs, app_state, provider_replies, chunk_results, scene_fragments, grouped_scenes, returned>>

\* Step 7 and the return
SortAndReturn ==
    /\ pc = "sort"
    /\ scenes' = sort_by_order(scenes)
    /\ returned' = scenes'
    /\ pc' = "done"
    /\ UNCHANGED <<inputs, app_state, provider_replies, chunk_results, scene_fragments, grouped_scenes>>

Next ==
    \/ AnalyzeChunk
    \/ AnalyzeChunkFails
    \/ CollectSceneFragments
    \/ GroupSceneFragments
    \/ MergeSceneGroups
    \/ ResolvePositions
    \/ ResolvePositionsRaises
    \/ ApplyTimeCanonicalization
    \/ ProcessSceneNumbers
    \/ SortAndReturn

Spec == Init /\ [][Next]_vars

---------------------------------------------------------------------------
(* Properties of the merge stage (aggregator.py, steps 2 and 3)            *)

\* the chunk ids of all fragments of a group
ChunkIdsOf(group) ==
    UNION {SeqRange(group.fragments[i].source_chunk_ids) : i \in 1..Len(group.fragments)}

\* the length of the longest full_scene_text of a group
LongestText(group) ==
    CHOOSE n \in {Len(group.fragments[i].full_scene_text) : i \in 1..Len(group.fragments)} :
        \A i \in 1..Len(group.fragments) : Len(group.fragments[i].full_scene_text) <= n

\* C1: for every fingerprint group, the returned scene of that group carries
\* the full_scene_text of a longest fragment of the group, and its
\* source_chunk_ids, as a set, are the chunk ids of all fragments of the group.
C1_MergeKeepsLongestTextAndAllChunks ==
    pc = "done" =>
        \A g \in SeqRange(grouped_scenes) :
            \E k \in 1..Len(returned) :
                /\ returned[k].scene_id = g.scene_id
                /\ \E i \in 1..Len(g.fragments) :
                       returned[k].full_scene_text = g.fragments[i].full_scene_text
                /\ Len(returned[k].full_scene_text) = LongestText(g)
                /\ SeqRange(returned[k].source_chunk_ids) = ChunkIdsOf(g)

\* a returned group of fragments from two chunks whose first fragment is
\* shorter than a later one
C1_Witness ==
    /\ pc = "done"
    /\ \E g \in SeqRange(grouped_scenes) :
          /\ Len(g.fragments) >= 2
          /\ Len(g.fragments[1].full_scene_text) < LongestText(g)
          /\ Cardinality(ChunkIdsOf(g)) >= 2
          /\ \E k \in 1..Len(returned) : returned[k].scene_id = g.scene_id

\* C2: right after the merge, the scene of a group of n > 1 fragments is
\* flagged for review and its note is "Merged from n chunks"; the scene of a
\* group of one fragment is that fragment, unflagged and without notes.
C2_FlaggedIffMerged ==
    pc = "resolve" =>
        /\ Len(scenes) = Len(grouped_scenes)
        /\ \A k \in 1..Len(scenes) :
              LET n == Len(grouped_scenes[k].fragments)
              IN  IF n > 1
                  THEN /\ scenes[k].flagged_for_review
                       /\ scenes[k].notes =
                              <<"M", "e", "r", "g", "e", "d", " ", "f", "r", "o", "m", " ">>
                                  \o <<Ascii[17 + n]>> \o <<" ", "c", "h", "u", "n", "k", "s">>
                  ELSE /\ scenes[k] = grouped_scenes[k].fragments[1]
                       /\ ~scenes[k].flagged_for_review
                       /\ scenes[k].notes = << >>

\* after the merge: a group of two fragments of the same chunk beside a
\* group of one fragment
C2_Witness ==
    /\ pc = "resolve"
    /\ \E k \in 1..Len(scenes) :
          /\ Len(grouped_scenes[k].fragments) = 2
          /\ Cardinality(ChunkIdsOf(grouped_scenes[k])) = 1
          /\ scenes[k].flagged_for_review
    /\ \E k \in 1..Len(scenes) :
          /\ Len(grouped_scenes[k].fragments) = 1
          /\ ~scenes[k].flagged_for_review

\* C3: the returned scenes have pairwise distinct scene_ids, and these are
\* the fingerprints of the collected fragments.
C3_OneScenePerFingerprint ==
    pc = "done" =>
        /\ \A i, j \in 1..Len(returned) :
              returned[i].scene_id = returned[j].scene_id => i = j
        /\ {returned[k].scene_id : k \in 1..Len(returned)}
               = {scene_fragments[k][1].scene_id : k \in 1..Len(scene_fragments)}

\* returned: two scenes from three fragments, fragments of one fingerprint
\* coming from different chunks
C3_Witness ==
    /\ pc = "done"
    /\ Len(returned) = 2
    /\ Len(scene_fragments) = 3
    /\ \E i, j \in 1..Len(scene_fragments) :
          /\ scene_fragments[i][1].scene_id = scene_fragments[j][1].scene_id
          /\ scene_fragments[i][2] # scene_fragments[j][2]

---------------------------------------------------------------------------
(* Properties of the returned list (aggregator.py, steps 4 to 7)           *)

\* the key (page_start, slugline_raw) of a is at most that of b
KeyAtMost(a, b) ==
    \/ a.page_start < b.page_start
    \/ a.page_start = b.page_start /\ ~StrLess(b.slugline_raw, a.slugline_raw)

SameNumber(j) ==
    {k \in 1..Len(returned) : returned[k].scene_number_raw = returned[j].scene_number_raw}

\* C5: among the returned scenes that share a non-empty raw number r, the
\* first has canonical number r, the (k+1)-th has r, "_" and the k-th letter
\* of the alphabet, and all of them are flagged for review.
C5_DuplicateNumbersGetLetterSuffixes ==
    pc = "done" =>
        \A j \in 1..Len(returned) :
            LET r == returned[j].scene_number_raw
                k == Cardinality({i \in SameNumber(j) : i < j})
            IN  (r # << >> /\ Cardinality(SameNumber(j)) >= 2) =>
                    /\ returned[j].flagged_for_review
                    /\ returned[j].scene_number_canonical =
                           IF k = 0 THEN r ELSE r \o <<"_", UpperLetters[k]>>

\* returned: three scenes with raw number 5, numbered 5, 5_A and 5_B
C5_Witness ==
    /\ pc = "done"
    /\ Len(returned) = 3
    /\ \A j \in 1..3 : returned[j].scene_number_raw = <<"5">> /\ returned[j].flagged_for_review
    /\ returned[1].scene_number_canonical = <<"5">>
    /\ returned[2].scene_number_canonical = <<"5", "_", "A">>
    /\ returned[3].scene_number_canonical = <<"5", "_", "B">>

\* the three decimal digits of n < 1000
ThreeDigits(n) ==
    <<Ascii[17 + (n \div 100)], Ascii[17 + ((n \div 10) % 10)], Ascii[17 + (n % 10)]>>

\* C6: a returned scene without raw number has the canonical number
\* AUTON-<order, three digits>-<first 8 hex digits of scene_id, upper case>,
\* and two such scenes have different canonical numbers.
C6_PlaceholderFromOrderAndFingerprint ==
    pc = "done" =>
        /\ \A j \in 1..Len(returned) :
              returned[j].scene_number_raw = << >> =>
                  returned[j].scene_number_canonical =
                      <<"A", "U", "T", "O", "N", "-">> \o ThreeDigits(returned[j].order)
                          \o <<"-">> \o str_upper(SubSeq(returned[j].scene_id, 1, 8))
        /\ \A i, j \in 1..Len(returned) :
              (i # j /\ returned[i].scene_number_raw = << >>
                     /\ returned[j].scene_number_raw = << >>) =>
                  returned[i].scene_number_canonical # returned[j].scene_number_canonical

\* returned: two scenes without raw number whose fingerprints start with the
\* same 8 hex digits
C6_Witness ==
    /\ pc = "done"
    /\ \E i, j \in 1..Len(returned) :
          /\ i # j
          /\ returned[i].scene_number_raw = << >>
          /\ returned[j].scene_number_raw = << >>
          /\ SubSeq(returned[i].scene_id, 1, 8) = SubSeq(returned[j].scene_id, 1, 8)
          /\ SubSeq(returned[i].scene_number_canonical, 1, 6) = <<"A", "U", "T", "O", "N", "-">>

\* the stages of aggregate_scenes that follow the time canonicalization
TimeApplied == pc \in {"numbers", "sort", "done"}

\* the canonical marker of the scene's own time_raw
OwnMarker(scene) == canonicalize_time(scene.time_raw)[1]

\* C7: with auto_bulk_time_inference, a scene that is not the first and whose
\* own marker is CONTINUOUS or SAME_AS_PREVIOUS has the resolved marker of the
\* scene before it; own markers DAY, CONTINUOUS, CONTINUOUS resolve to DAY,
\* DAY, DAY.
C7_ContinuousTakesPreviousResolvedMarker ==
    (TimeApplied /\ config.auto_bulk_time_inference) =>
        /\ \A i \in 2..Len(scenes) :
              OwnMarker(scenes[i]) \in {"CONTINUOUS", "SAME_AS_PREVIOUS"} =>
                  scenes[i].time_canonical = scenes[i - 1].time_canonical
        /\ (/\ Len(scenes) = 3
             /\ OwnMarker(scenes[1]) = "DAY"
             /\ OwnMarker(scenes[2]) = "CONTINUOUS"
             /\ OwnMarker(scenes[3]) = "CONTINUOUS") =>
                \A i \in 1..3 : scenes[i].time_canonical = "DAY"

\* after the time stage: own markers DAY, CONTINUOUS, CONTINUOUS, all DAY now
C7_Witness ==
    /\ pc = "numbers"
    /\ config.auto_bulk_time_inference
    /\ Len(scenes) = 3
    /\ OwnMarker(scenes[1]) = "DAY"
    /\ OwnMarker(scenes[2]) = "CONTINUOUS"
    /\ OwnMarker(scenes[3]) = "CONTINUOUS"
    /\ \A i \in 1..3 : scenes[i].time_canonical = "DAY"

---------------------------------------------------------------------------
(* Properties of the start page (aggregator.py, _find_scene_start_page)    *)

\* the stages of aggregate_scenes that follow the position resolution
PositionResolved == pc \in {"time", "numbers", "sort", "done"}

\* the pages whose upper-cased text holds the first characters of the heading
TextHitsIn(pages, heading) ==
    {n \in 1..Len(pages) : Contains(Prefix(heading, SearchChars), str_upper(pages[n]))}

\* the pages with a layout block that holds the first characters of the heading
LayoutHitsIn(layout_blocks, heading) ==
    {p \in 1..Len(layout_blocks) :
        \E b \in 1..Len(layout_blocks[p]) :
            Contains(Prefix(heading, LayoutSearchChars), str_upper(layout_blocks[p][b].text))}

\* the normalized headings of the detections
Headings == {normalize_slugline(d.slugline_raw) : d \in LLMOutputs}

\* TextHitsIn and LayoutHitsIn, evaluated once for every document and heading
HitsTable ==
    [x \in Extractions, h \in Headings |->
        [text |-> TextHitsIn(x.pages_text, h),
         layout |-> LayoutHitsIn(x.pdf_metadata.layout_blocks, h)]]
    @@ << >>

\* the hits of the scene's heading in the document at hand
TextHits(scene) ==
    HitsTable[[pages_text |-> pages_text, pdf_metadata |-> pdf_metadata],
              scene.slugline_normalized].text

LayoutHits(scene) ==
    HitsTable[[pages_text |-> pages_text, pdf_metadata |-> pdf_metadata],
              scene.slugline_normalized].layout

\* the fragments the scene took its text from, as they were collected
CollectedAs(scene) ==
    {scene_fragments[k][1] : k \in
        {k \in 1..Len(scene_fragments) :
            /\ scene_fragments[k][1].scene_id = scene.scene_id
            /\ scene_fragments[k][1].full_scene_text = scene.full_scene_text}}

\* C8: when some page text holds the first 50 characters of the heading, the
\* start page is the lowest such page, with confidence 1.0 and source
\* substring_match, whatever the layout blocks and the estimate say; a layout
\* match is used only when no page text matches, and the estimate and the
\* fallback only when neither page text nor layout block matches.
C8_TextMatchWinsThenLayoutThenRest ==
    PositionResolved =>
        \A k \in 1..Len(scenes) :
            LET s == scenes[k]
                source == s.provenance.start_page_source
                text == TextHits(s)
            IN  /\ text # {} =>
                       /\ s.page_start = Least(text)
                       /\ s.confidences.start_page_confidence = 100
                       /\ source = "substring_match"
                /\ source = "layout_match" => text = {}
                /\ source \in {"llm_estimate", "inferred_order"} =>
                       text = {} /\ LayoutHits(s) = {}

\* positions resolved: a scene found in the text of page 2, whose first
\* layout match is on page 1 and whose estimate was page 1
C8_Witness ==
    /\ pc = "time"
    /\ \E k \in 1..Len(scenes) :
          /\ TextHits(scenes[k]) # {}
          /\ LayoutHits(scenes[k]) # {}
          /\ Least(LayoutHits(scenes[k])) < Least(TextHits(scenes[k]))
          /\ scenes[k].page_start = Least(TextHits(scenes[k]))
          /\ scenes[k].provenance.start_page_source = "substring_match"
          /\ \E f \in CollectedAs(scenes[k]) :
                /\ f.confidences.start_page_confidence = 60
                /\ f.page_start # scenes[k].page_start

\* the scene_data dicts the provider returned that validate
Detections ==
    {d \in UNION {SeqRange(provider_replies[i].scenes_data) : i \in 1..Len(provider_replies)} :
        has_required_fields(d)}

\* the detections the scene took its text from
DetectionsOf(scene) == {d \in Detections : d.full_scene_text = scene.full_scene_text}

\* C9: when neither a page text nor a layout block matches, the start page is
\* the provider's page with source llm_estimate if the provider's confidence
\* for the detection exceeds 0.65, and the source is not llm_estimate if that
\* confidence is 0.65 or lower.
C9_ProviderEstimateGate ==
    PositionResolved =>
        \A k \in 1..Len(scenes) :
            (TextHits(scenes[k]) = {} /\ LayoutHits(scenes[k]) = {}) =>
                \A d \in DetectionsOf(scenes[k]) :
                    /\ (d.llm_estimated_start_page # 0
                            /\ d.provider_confidence > LLMConfidenceGate) =>
                           /\ scenes[k].page_start = d.llm_estimated_start_page
                           /\ scenes[k].provenance.start_page_source = "llm_estimate"
                    /\ d.provider_confidence <= LLMConfidenceGate =>
                           scenes[k].provenance.start_page_source # "llm_estimate"

\* the confidence the gate reads is the one set at collection, 0.6 or 0.3:
\* no resolved scene has the source llm_estimate
EstimateStepNeverTaken ==
    PositionResolved =>
        \A k \in 1..Len(scenes) : scenes[k].provenance.start_page_source # "llm_estimate"

\* C10: a scene that matches no page text and no layout block, and whose
\* collected confidence does not exceed the gate, has start page 1,
\* confidence 0.3 and source inferred_order.
C10_OrderFallback ==
    PositionResolved =>
        \A k \in 1..Len(scenes) :
            (/\ TextHits(scenes[k]) = {}
             /\ LayoutHits(scenes[k]) = {}
             /\ \A f \in CollectedAs(scenes[k]) :
                    f.confidences.start_page_confidence <= LLMConfidenceGate) =>
                /\ scenes[k].page_start = 1
                /\ scenes[k].confidences.start_page_confidence = 30
                /\ scenes[k].provenance.start_page_source = "inferred_order"

\* positions resolved: a scene collected with the estimate page 3 that
\* matches nothing and is put on page 1 by the fallback
C10_Witness ==
    /\ pc = "time"
    /\ \E k \in 1..Len(scenes) :
          /\ TextHits(scenes[k]) = {}
          /\ LayoutHits(scenes[k]) = {}
          /\ \E f \in CollectedAs(scenes[k]) : f.page_start = 3
          /\ scenes[k].page_start = 1
          /\ scenes[k].confidences.start_page_confidence = 30
          /\ scenes[k].provenance.start_page_source = "inferred_order"

---------------------------------------------------------------------------
(* Properties of provenance and length (aggregator.py, _resolve_positions) *)

\* the values of Provenance.start_page_source
PositionSources == {"substring_match", "layout_match", "llm_estimate", "inferred_order"}

\* C11: once positions are resolved there is one scene for every group, and
\* every scene carries one position source out of substring_match,
\* layout_match, llm_estimate and inferred_order and one length source out of
\* layout and char_avg; the same holds for every returned scene.
C11_OneSourceOfEachKind ==
    PositionResolved =>
        /\ Len(scenes) = Len(grouped_scenes)
        /\ \A k \in 1..Len(scenes) :
              /\ scenes[k].provenance.start_page_source \in PositionSources
              /\ scenes[k].provenance.length_source \in {"layout", "char_avg"}
        /\ pc = "done" => returned = scenes

\* returned: three scenes, placed by a text match and by a layout match
C11_Witness ==
    /\ pc = "done"
    /\ Len(returned) = 3
    /\ {returned[k].provenance.start_page_source : k \in 1..Len(returned)}
           = {"substring_match", "layout_match"}
    /\ \A k \in 1..Len(returned) : returned[k].provenance.length_source = "char_avg"

---------------------------------------------------------------------------
(* The text utilities called on their own                                  *)
(* (src/src/utils/text_processing.py).  No document is in the pipeline;    *)
(* each behaviour is one call, call holds its arguments and what it        *)
(* returned.                                                               *)

\* the bound on the numerator of the lengths round_to_eighth is called with
MaxNumerator == 24

\* float lengths: non-negative fractions whose denominator is a power of two
Lengths == {<<n, d>> : n \in 0..MaxNumerator, d \in {1, 2, 4, 8, 16, 64}}

\* the arguments compute_scene_id is called with
IdHeadings == { <<"I", "N", "T", ".", " ", "H", "A", "L", "L", " ", "-", " ", "D", "A", "Y">>, <<"E", "X", "T", ".", " ", "G", "A", "R", "D", "E", "N", " ", "-", " ", "D", "A", "Y">> }
IdNumbers == { << >>, <<"5">> }
IdTexts == { <<"a", "b", " ", "c", "d">>, <<"A", "B", " ", "C", "D">>, <<"a", "b", " ", " ", "c", "d">>, <<"a", "b", " ", "c", "d", "x">>, <<" ", "a", "b", " ", "c", "d">>, <<"x", "y">> }
IdFilenames == { <<"s", "c", "r", "i", "p", "t">>, <<"d", "r", "a", "f", "t">> }
IdFirstChars == {5, 200}

IdArguments ==
    [slugline_normalized : IdHeadings, scene_number_raw : IdNumbers,
     following_text : IdTexts, fname : IdFilenames, first_chars_count : IdFirstChars]

\* the fields in which two argument records differ
Differing(a, b) == {f \in DOMAIN a : a[f] # b[f]}

UtilInit ==
    /\ pc = "idle"
    /\ config = [chunk_size |-> 2500, overlap |-> 300, first_chars_for_hash |-> 200,
                 auto_bulk_time_inference |-> TRUE]
    /\ filename = << >>
    /\ pages_text = << >>
    /\ pdf_metadata = ExtractBasic(<< >>).pdf_metadata
    /\ chunks = << >>
    /\ provider_replies = << >>
    /\ chunk_results = << >>
    /\ scene_fragments = << >>
    /\ grouped_scenes = << >>
    /\ scenes = << >>
    /\ returned = << >>
    /\ current_results = [success |-> FALSE, scenes |-> << >>]
    /\ update_requests = << >>
    /\ call = [fn |-> "none"]

pipeline_state == <<pc, inputs, provider_replies, chunk_results, scene_fragments,
                    grouped_scenes, scenes, returned, current_results, update_requests>>

\* round_to_eighth(value)
CallRoundToEighth ==
    /\ call.fn = "none"
    /\ \E value \in Lengths :
          call' = [fn |-> "round_to_eighth", value |-> value,
                   result |-> round_to_eighth(value)]
    /\ UNCHANGED pipeline_state

\* compute_scene_id, called twice: with some arguments, and with arguments
\* that differ from them in at most one place
CallComputeSceneId ==
    /\ call.fn = "none"
    /\ \E a \in IdArguments :
          \E b \in {x \in IdArguments : Cardinality(Differing(a, x)) <= 1} :
              call' = [fn |-> "compute_scene_id", first |-> a, second |-> b,
                       result |->
                           <<compute_scene_id(a.slugline_normalized, a.scene_number_raw,
                                              a.following_text, a.fname, a.first_chars_count),
                             compute_scene_id(b.slugline_normalized, b.scene_number_raw,
                                              b.following_text, b.fname, b.first_chars_count)>>]
    /\ UNCHANGED pipeline_state

\* the bound on the length of the raw headings normalize_slugline is called with
MaxHeadingLen == 4

\* raw headings: a letter, whitespace, punctuation, a control character, a dash
HeadingChars == {"a", " ", "TAB", "(", "BEL", "EM"}

RECURSIVE RawHeadings(_)
RawHeadings(n) ==
    IF n = 0 THEN {<< >>}
    ELSE RawHeadings(n - 1)
         \cup {Append(h, c) : h \in {g \in RawHeadings(n - 1) : Len(g) = n - 1},
                               c \in HeadingChars}

\* normalize_slugline(raw_slugline)
CallNormalizeSlugline ==
    /\ call.fn = "none"
    /\ \E raw_slugline \in RawHeadings(MaxHeadingLen) :
          call' = [fn |-> "normalize_slugline", value |-> raw_slugline,
                   result |-> normalize_slugline(raw_slugline)]
    /\ UNCHANGED pipeline_state

\* the headings the time utilities are called with: a location, a time
\* marker of the vocabulary of time_patterns, and what may follow it
TimeMarkers ==
    { <<"M", "O", "R", "N", "I", "N", "G">>,
      <<"D", "A", "Y">>,
      <<"A", "F", "T", "E", "R", "N", "O", "O", "N">>,
      <<"E", "V", "E", "N", "I", "N", "G">>,
      <<"D", "U", "S", "K">>,
      <<"D", "A", "W", "N">>,
      <<"N", "I", "G", "H", "T">>,
      <<"C", "O", "N", "T", "I", "N", "U", "O", "U", "S">>,
      <<"C", "O", "N", "T">>,
      <<"L", "A", "T", "E", "R">>,
      <<"S", "A", "M", "E">>,
      <<"M", "O", "M", "E", "N", "T", "S", " ", "L", "A", "T", "E", "R">>,
      <<"S", "A", "M", "E", " ", "D", "A", "Y">> }

TimeHeadings ==
    {head \o marker \o tail :
        head \in {<< >>, <<"I", "n", "t", ".", " ", "H", "a", "l", "l", " ", "-", " ">>},
        marker \in TimeMarkers,
        tail \in {<< >>, <<".">>, <<".", " ">>, <<" ", "#", "5">>, <<".", "5">>}}

\* extract_time_raw(slugline_raw) at collection and canonicalize_time(time_raw)
\* in _apply_time_canonicalization
CallExtractAndCanonicalizeTime ==
    /\ call.fn = "none"
    /\ \E slugline \in TimeHeadings :
       \E time_raw \in {extract_time_raw(slugline)} :
          call' = [fn |-> "canonicalize_time", value |-> slugline, time_raw |-> time_raw,
                   result |-> canonicalize_time(time_raw)]
    /\ UNCHANGED pipeline_state

UtilNext ==
    \/ CallRoundToEighth
    \/ CallComputeSceneId
    \/ CallNormalizeSlugline
    \/ CallExtractAndCanonicalizeTime

UtilSpec == UtilInit /\ [][UtilNext]_vars

\* a <= b for lengths <<numerator, denominator>>
LengthAtMost(a, b) == a[1] * b[2] <= b[1] * a[2]

\* C12: for a length L >= 0, round_to_eighth(L), counted in eighths, is a
\* whole number of eighths that is at least one, is not below L, is the least
\* such number, and is not below the result for any length that is not above L.
C12_RoundsUpToEighthWithFloor ==
    call.fn = "round_to_eighth" =>
        LET L == call.value
            r == call.result
        IN  /\ r \in Nat /\ r >= 1
            /\ r * L[2] >= 8 * L[1]
            /\ r > 1 => (r - 1) * L[2] < 8 * L[1]
            /\ \A M \in Lengths : LengthAtMost(M, L) => round_to_eighth(M) <= r

\* a call with a length strictly between one and two eighths, rounded to two
C12_Witness ==
    /\ call.fn = "round_to_eighth"
    /\ call.value[1] * 8 > call.value[2]
    /\ call.value[1] * 8 < 2 * call.value[2]
    /\ call.result = 2

\* C13: a scene's raw length is the layout-derived length when the metadata
\* holds layout blocks and the layout computation returns a value, and
\* otherwise scene_chars / average_chars_per_page; the length source names the
\* tier used, length_confidence is 0.8 for "layout" and 0.6 otherwise, and the
\* rounded length is round_to_eighth of the raw length, so at least an eighth.
C13_TwoTierLength ==
    PositionResolved =>
        \A k \in 1..Len(scenes) :
            LET scene == scenes[k]
                raw == scene.raw_length_pages
                avg == pdf_metadata.average_chars_per_page
                layout_length == _compute_layout_length(scene)
            IN  /\ IF pdf_metadata.layout_blocks # << >> /\ layout_length # << >>
                   THEN /\ raw = layout_length[1]
                        /\ scene.provenance.length_source = "layout"
                   ELSE /\ raw[1] * avg[1] = scene.scene_chars * avg[2] * raw[2]
                        /\ scene.provenance.length_source = "char_avg"
                /\ scene.confidences.length_confidence
                       = (IF scene.provenance.length_source = "layout" THEN 80 ELSE 60)
                /\ scene.rounded_length_pages = round_to_eighth(raw)
                /\ scene.rounded_length_pages >= 1

\* a returned scene of a document with layout blocks, for which the layout
\* computation has no value: its length is a fraction of a page by characters
C13_Witness ==
    /\ pc = "done"
    /\ pdf_metadata.layout_blocks # << >>
    /\ \E k \in 1..Len(returned) :
          /\ returned[k].provenance.length_source = "char_avg"
          /\ returned[k].confidences.length_confidence = 60
          /\ returned[k].scene_chars > 0
          /\ returned[k].raw_length_pages[1] < returned[k].raw_length_pages[2]
          /\ returned[k].rounded_length_pages > 1

\* the fields of the hash input that are passed through as they are
PlainIdFields == {"slugline_normalized", "scene_number_raw", "fname"}

\* C14 as stated: with fixed arguments compute_scene_id returns the same digest
\* on every call, and changing any one argument while keeping the others
\* changes the digest.
C14_AnyChangeChangesDigest ==
    call.fn = "compute_scene_id" =>
        /\ call.first = call.second => call.result[1] = call.result[2]
        /\ Cardinality(Differing(call.first, call.second)) = 1
               => call.result[1] # call.result[2]

\* C14, amended: with fixed arguments compute_scene_id returns the same digest
\* on every call; changing the normalized heading, the raw ordinal or the
\* document identifier alone changes the digest; changing the opening text or
\* N alone changes the digest exactly when it changes the upper-cased,
\* stripped, whitespace-collapsed first N characters of the opening text.
C14_DigestFollowsNormalizedOpening ==
    call.fn = "compute_scene_id" =>
        LET a == call.first
            b == call.second
            changed == Differing(a, b)
        IN  /\ changed = {} => call.result[1] = call.result[2]
            /\ changed # {} /\ changed \subseteq PlainIdFields
                   => call.result[1] # call.result[2]
            /\ changed # {} /\ changed \cap PlainIdFields = {}
                   => (call.result[1] = call.result[2]
                          <=> following_normalized(a.following_text, a.first_chars_count)
                                = following_normalized(b.following_text, b.first_chars_count))

\* two calls whose opening texts differ in letter case only: one digest
C14_Witness ==
    /\ call.fn = "compute_scene_id"
    /\ Differing(call.first, call.second) = {"following_text"}
    /\ str_upper(call.first.following_text) = str_upper(call.second.following_text)
    /\ call.result[1] = call.result[2]

---------------------------------------------------------------------------
(* Properties of the whole aggregation                                     *)

\* steps 4 to 7 of aggregate_scenes, where the length computation does not
\* raise
aggregated(merged, pages, metadata, cfg) ==
    sort_by_order(
        _process_scene_numbers(
            _apply_time_canonicalization(_resolve_positions(pages, metadata, merged), cfg)))

\* aggregate_scenes: the lists it can return for given arguments, one for
\* each order list(set(...)) can give the chunk ids of a merged scene
aggregate_scenes(results, pages, metadata, fname, cfg) ==
    {aggregated(merged, pages, metadata, cfg)
        : merged \in _merge_scene_groups(
                        _group_scene_fragments(
                            _collect_scene_fragments(results, fname, cfg)))}

\* C15: two runs of aggregate_scenes on the same chunk results, page texts,
\* metadata, filename and configuration return the same scene list, equal in
\* every field: whatever this run returned is the only list a run can return.
C15_AggregationIsDeterministic ==
    pc = "done" =>
        aggregate_scenes(chunk_results, pages_text, pdf_metadata, filename, config)
            = {returned}

\* C16: for every list of chunk results and every page-text list and metadata
\* the extraction can produce, aggregate_scenes returns a scene list and
\* never raises.
C16_AggregationNeverRaises == pc # "raised"

---------------------------------------------------------------------------
(* Properties of failure handling                                          *)

\* the detection dict validates and the try block of the collection does not
\* raise for it
KeptTable ==
    [d \in SceneData, f \in Filenames, n \in {cfg.first_chars_for_hash : cfg \in Configs} |->
        has_required_fields(d) /\ ~fragment_raises(LLMSceneOutput(d), f, n)]
    @@ << >>

IsKept(scene_data) == KeptTable[scene_data, filename, config.first_chars_for_hash]

\* <<i, j>>: the j-th detection the provider reported for the i-th chunk is kept
KeptPositions ==
    {p \in (1..Len(provider_replies)) \X (1..MaxDetections) :
        /\ p[2] <= Len(provider_replies[p[1]].scenes_data)
        /\ IsKept(provider_replies[p[1]].scenes_data[p[2]])}

\* the fragment made of the j-th detection of the i-th chunk
FragmentAt(i, j) ==
    SceneFragmentTable[LLMSceneOutput(provider_replies[i].scenes_data[j]),
                       chunk_id_of(i - 1), filename, config.first_chars_for_hash].scene

\* C17: a detection that lacks a required field, or whose normalization
\* raises, is dropped; every other detection of the same chunk and of every
\* other chunk is collected, with its chunk id, and nothing else is; when the
\* aggregation returns, each collected detection's scene is in the output and
\* names the detection's chunk.
C17_BadFragmentsAreIsolated ==
    pc # "process_chunks" =>
        /\ Len(scene_fragments) = Cardinality(KeptPositions)
        /\ \A p \in KeptPositions :
              /\ \E f \in 1..Len(scene_fragments) :
                    /\ scene_fragments[f][1] = FragmentAt(p[1], p[2])
                    /\ scene_fragments[f][2] = chunk_id_of(p[1] - 1)
              /\ pc = "done" =>
                    \E k \in 1..Len(returned) :
                        /\ returned[k].scene_id = FragmentAt(p[1], p[2]).scene_id
                        /\ chunk_id_of(p[1] - 1) \in SeqRange(returned[k].source_chunk_ids)

\* one chunk reports a detection without one_liner, then a detection whose
\* hash input cannot be encoded, then a sound detection: one scene is returned
C17_Witness ==
    /\ pc = "done"
    /\ Len(returned) = 1
    /\ \E i \in 1..Len(provider_replies) :
          LET found == provider_replies[i].scenes_data
          IN  /\ Len(found) = 3
              /\ ~has_required_fields(found[1])
              /\ has_required_fields(found[2]) /\ ~IsKept(found[2])
              /\ IsKept(found[3])

\* C18: _process_chunks returns one ChunkResult for every chunk, in chunk
\* order, the i-th (from zero) with the id "chunk_" and i in three digits; a
\* chunk whose analysis raises has a ChunkResult with no scenes, any other
\* chunk has the scenes that validate, and the chunks after it are processed.
C18_OneResultPerChunk ==
    /\ Len(chunk_results) = Len(provider_replies)
    /\ Len(chunk_results) <= Len(chunks)
    /\ pc # "process_chunks" => Len(chunk_results) = Len(chunks)
    /\ \A i \in 1..Len(chunk_results) :
          /\ chunk_results[i].chunk_id
                = <<"c", "h", "u", "n", "k", "_">> \o ThreeDigits(i - 1)
          /\ chunk_results[i].scenes
                = (IF provider_replies[i].raised THEN << >>
                   ELSE validated_scenes(provider_replies[i].scenes_data))

\* the analysis of the first chunk raised, the chunk after it was analysed
\* and its detections are aggregated
C18_Witness ==
    /\ pc = "done"
    /\ Len(chunk_results) >= 2
    /\ provider_replies[1].raised
    /\ chunk_results[1].scenes = << >>
    /\ chunk_results[2].scenes # << >>
    /\ \E k \in 1..Len(returned) : returned[k].source_chunk_ids = <<chunk_results[2].chunk_id>>

---------------------------------------------------------------------------
(* src/src/app.py: the review layer.  current_results is the module's      *)
(* global; returned keeps the list process_screenplay returned, as it was  *)
(* returned; update_requests is the history of the update_scene requests.  *)

\* the bound on the number of update_scene requests in a behaviour
MaxUpdates == 2

\* ProcessingConfig as upload_screenplay builds it, with the form's defaults
UploadConfig ==
    [chunk_size |-> 2500, overlap |-> 300, first_chars_for_hash |-> 200,
     auto_bulk_time_inference |-> TRUE]

\* what the provider reports for an uploaded document: for its first chunk
\* the first heading and one more detection, nothing for later chunks
UploadedDetections ==
    {l \in SceneDataLists(2) :
        /\ Len(l) = 2
        /\ l[1].slugline_raw = Slug_Yard /\ has_required_fields(l[1])}

UploadedReplies(chunk_list, found) ==
    AsSeq([i \in 1..Len(chunk_list) |->
              [raised |-> FALSE, scenes_data |-> IF i = 1 THEN found ELSE << >>]])

\* _process_chunks over all chunks
_process_chunks(replies) ==
    AsSeq([i \in 1..Len(replies) |->
              [chunk_id |-> chunk_id_of(i - 1),
               scenes |-> validated_scenes(replies[i].scenes_data)]])

\* the JSON bodies of the update requests
UpdateBodies ==
    { << >>,
      [notes |-> <<"o", "k">>],
      [scene_number_canonical |-> <<"7", "A">>, flagged_for_review |-> TRUE],
      [master_location_canonical |-> <<"B", "A", "R", "N">>,
       sub_location_canonical |-> <<"L", "O", "F", "T">>, time_canonical |-> "NIGHT"],
      [scene_number_canonical |-> <<"9">>, time_canonical |-> "NOON",
       notes |-> <<"l", "a", "t", "e">>],
      [scene_id |-> <<"f", "f">>, order |-> 9, page_start |-> 9] }

\* a scene_id no scene has
UnknownSceneId == <<"n", "o", "n", "e">>

\* a faulty update that also flags the scene it writes to
apply_update_flagging(scene, update_data) ==
    [scene EXCEPT !.flagged_for_review = TRUE]

\* TimeCanonical(update_data["time_canonical"]) raises ValueError
update_raises(update_data) ==
    /\ "time_canonical" \in DOMAIN update_data
    /\ update_data.time_canonical \notin TimeCanonical

\* the body of the loop of update_scene for the scene found: the assignments
\* in the order of the code, up to the one that raises
apply_update(scene, update_data) ==
    LET keys == DOMAIN update_data
        s1 == IF "scene_number_canonical" \in keys
              THEN [scene EXCEPT !.scene_number_canonical = update_data.scene_number_canonical]
              ELSE scene
        s2 == IF "master_location_canonical" \in keys
              THEN [s1 EXCEPT !.master_location_canonical = update_data.master_location_canonical]
              ELSE s1
        s3 == IF "sub_location_canonical" \in keys
              THEN [s2 EXCEPT !.sub_location_canonical = update_data.sub_location_canonical]
              ELSE s2
        s4 == IF "time_canonical" \in keys
              THEN [s3 EXCEPT !.time_canonical = update_data.time_canonical]
              ELSE s3
        s5 == IF "notes" \in keys THEN [s4 EXCEPT !.notes = update_data.notes] ELSE s4
        s6 == IF "flagged_for_review" \in keys
              THEN [s5 EXCEPT !.flagged_for_review = update_data.flagged_for_review]
              ELSE s5
    IN  IF update_raises(update_data) THEN s3 ELSE s6

\* the index of the first scene with this scene_id, 0 if there is none
FirstWithId(list, scene_id) ==
    IF \E k \in 1..Len(list) : list[k].scene_id = scene_id
    THEN CHOOSE k \in 1..Len(list) :
            /\ list[k].scene_id = scene_id
            /\ \A j \in 1..(k - 1) : list[j].scene_id # scene_id
    ELSE 0

\* update_scene on loaded results: the scenes afterwards
update_scene(list, scene_id, update_data) ==
    LET k == FirstWithId(list, scene_id)
    IN  IF k = 0 THEN list
        ELSE [list EXCEPT ![k] = apply_update(list[k], update_data)]

\* the response: 404 for an unknown scene, 500 when the handler raises
update_status(list, scene_id, update_data) ==
    IF FirstWithId(list, scene_id) = 0 THEN 404
    ELSE IF update_raises(update_data) THEN 500 ELSE 200

ReviewInit == UtilInit

\* process_screenplay up to the merge, for an uploaded document: the values
\* of its steps are bound one after the other
Processed(x, f, found, chunk_list, replies, results, fragments, groups) ==
    /\ chunk_list = chunk_text(full_text(x.pages_text), UploadConfig.chunk_size,
                               UploadConfig.overlap)
    /\ replies = UploadedReplies(chunk_list, found)
    /\ results = _process_chunks(replies)
    /\ fragments = _collect_scene_fragments(results, f, UploadConfig)
    /\ groups = _group_scene_fragments(fragments)
    /\ config' = UploadConfig
    /\ filename' = f
    /\ pages_text' = x.pages_text
    /\ pdf_metadata' = x.pdf_metadata
    /\ chunks' = chunk_list
    /\ provider_replies' = replies
    /\ chunk_results' = results
    /\ scene_fragments' = fragments
    /\ grouped_scenes' = groups

\* upload_screenplay, the whole handler, for a document the aggregation
\* returns for; one upload in a behaviour
UploadScreenplay ==
    /\ pc = "idle"
    /\ \E x \in Extractions, f \in Filenames, found \in UploadedDetections :
       \E chunk_list \in {chunk_text(full_text(x.pages_text), UploadConfig.chunk_size,
                                     UploadConfig.overlap)} :
       \E replies \in {UploadedReplies(chunk_list, found)} :
       \E results \in {_process_chunks(replies)} :
       \E fragments \in {_collect_scene_fragments(results, f, UploadConfig)} :
       \E groups \in {_group_scene_fragments(fragments)} :
       \E merged \in _merge_scene_groups(groups) :
          /\ fragments = << >> \/ ~LengthRaises(x.pdf_metadata)
          /\ Processed(x, f, found, chunk_list, replies, results, fragments, groups)
          /\ scenes' = aggregated(merged, x.pages_text, x.pdf_metadata, UploadConfig)
          /\ returned' = scenes'
          /\ current_results' = [success |-> TRUE, scenes |-> scenes']
    /\ pc' = "done"
    /\ UNCHANGED <<update_requests, call>>

\* upload_screenplay for a document the aggregation raises for:
\* process_screenplay reports success False, current_results is kept
UploadScreenplayFails ==
    /\ pc = "idle"
    /\ \E x \in Extractions, f \in Filenames, found \in UploadedDetections :
       \E chunk_list \in {chunk_text(full_text(x.pages_text), UploadConfig.chunk_size,
                                     UploadConfig.overlap)} :
       \E replies \in {UploadedReplies(chunk_list, found)} :
       \E results \in {_process_chunks(replies)} :
       \E fragments \in {_collect_scene_fragments(results, f, UploadConfig)} :
       \E groups \in {_group_scene_fragments(fragments)} :
       \E merged \in _merge_scene_groups(groups) :
          /\ fragments # << >> /\ LengthRaises(x.pdf_metadata)
          /\ Processed(x, f, found, chunk_list, replies, results, fragments, groups)
          /\ scenes' = merged
    /\ pc' = "raised"
    /\ UNCHANGED <<returned, app_state>>

\* update_scene with results loaded
UpdateScene ==
    /\ current_results.success
    /\ Len(update_requests) < MaxUpdates
    /\ \E scene_id \in {current_results.scenes[k].scene_id :
                           k \in 1..Len(current_results.scenes)} \cup {UnknownSceneId},
          update_data \in UpdateBodies :
          /\ current_results' =
                 [current_results EXCEPT !.scenes = update_scene(@, scene_id, update_data)]
          /\ update_requests' =
                 Append(update_requests,
                        [scene_id |-> scene_id, update_data |-> update_data,
                         status |-> update_status(current_results.scenes, scene_id,
                                                  update_data)])
    /\ UNCHANGED <<pc, inputs, provider_replies, chunk_results, scene_fragments,
                   grouped_scenes, scenes, returned, call>>

\* update_scene with no results loaded: 404 before the body is read
UpdateSceneNotLoaded ==
    /\ ~current_results.success
    /\ Len(update_requests) < MaxUpdates
    /\ \E scene_id \in {UnknownSceneId} :
          update_requests' =
              Append(update_requests,
                     [scene_id |-> scene_id, update_data |-> << >>, status |-> 404])
    /\ UNCHANGED <<pc, inputs, provider_replies, chunk_results, scene_fragments,
                   grouped_scenes, scenes, returned, current_results, call>>

ReviewNext ==
    \/ UploadScreenplay
    \/ UploadScreenplayFails
    \/ UpdateScene
    \/ UpdateSceneNotLoaded

ReviewSpec == ReviewInit /\ [][ReviewNext]_vars

\* the fields update_scene assigns
ReviewFields ==
    {"scene_number_canonical", "master_location_canonical", "sub_location_canonical",
     "time_canonical", "notes", "flagged_for_review"}

\* the fields named in the requests addressed to the scene
NamedFor(scene_id) ==
    UNION {DOMAIN update_requests[r].update_data :
              r \in {q \in 1..Len(update_requests) : update_requests[q].scene_id = scene_id}}

\* C19: after any sequence of update_scene calls the loaded scenes are the
\* scenes the pipeline returned, in the same order, and a scene differs from
\* its pipeline output only in fields among the six update_scene assigns that
\* are named in a request addressed to it; every other field and every other
\* scene is unchanged, and a request for an unknown scene_id changes nothing.
C19_UpdateIsFieldReplacement ==
    current_results.success =>
        /\ Len(current_results.scenes) = Len(returned)
        /\ \A k \in 1..Len(returned) :
              /\ DOMAIN current_results.scenes[k] = DOMAIN returned[k]
              /\ \A field \in DOMAIN returned[k] :
                    current_results.scenes[k][field] # returned[k][field]
                        => field \in ReviewFields \cap NamedFor(returned[k].scene_id)

\* two requests: one for an unknown scene_id, one that replaced the notes of
\* the second of two scenes and nothing else
C19_Witness ==
    /\ current_results.success
    /\ Len(returned) = 2
    /\ Len(update_requests) = 2
    /\ update_requests[1].scene_id = UnknownSceneId
    /\ update_requests[1].status = 404
    /\ update_requests[2].status = 200
    /\ current_results.scenes[1] = returned[1]
    /\ current_results.scenes[2] = [returned[2] EXCEPT !.notes = <<"o", "k">>]
    /\ returned[2].notes # <<"o", "k">>

---------------------------------------------------------------------------
(* The end-to-end merge scenario                                           *)

\* the text after the heading, as the collection takes it
FollowingText(scene_data) ==
    str_strip(Suffix(scene_data.full_scene_text, Len(scene_data.slugline_raw)))

\* two captures of one text that are not identical: one breaks off where the
\* other goes on
Overlapping(a, b) ==
    /\ a # b
    /\ a # << >> /\ b # << >>
    /\ \/ Prefix(b, Len(a)) = a
       \/ Prefix(a, Len(b)) = b

\* C20: when two chunks each report a detection with the same heading whose
\* following texts overlap but are not identical, the aggregation returns one
\* scene for the two, flagged for review, with a note that cites the 2
\* fragments when they are the only ones kept, and with both chunk ids.
C20_OverlappingDetectionsMerge ==
    pc = "done" =>
        \A p \in KeptPositions, q \in KeptPositions :
            LET a == provider_replies[p[1]].scenes_data[p[2]]
                b == provider_replies[q[1]].scenes_data[q[2]]
            IN  /\ p[1] # q[1]
                /\ a.slugline_raw = b.slugline_raw
                /\ Overlapping(FollowingText(a), FollowingText(b))
                => \E k \in 1..Len(returned) :
                       /\ returned[k].scene_id = FragmentAt(p[1], p[2]).scene_id
                       /\ returned[k].scene_id = FragmentAt(q[1], q[2]).scene_id
                       /\ returned[k].flagged_for_review
                       /\ {chunk_id_of(p[1] - 1), chunk_id_of(q[1] - 1)}
                              \subseteq SeqRange(returned[k].source_chunk_ids)
                       /\ Cardinality(KeptPositions) = 2
                              => Prefix(returned[k].notes, 20)
                                    = <<"M", "e", "r", "g", "e", "d", " ", "f", "r", "o", "m",
                                        " ", "2", " ", "c", "h", "u", "n", "k", "s">>

---------------------------------------------------------------------------
(* Properties of merged estimates, chunking and normalization              *)

\* the kept detections that were grouped into the scene
GroupOf(scene) ==
    {p \in KeptPositions : FragmentAt(p[1], p[2]).scene_id = scene.scene_id}

\* the detection the provider reported at a position
DetectionAt(p) == provider_replies[p[1]].scenes_data[p[2]]

\* C21: for a scene merged from detections with different provider estimates
\* that matches no page text and no layout block, the estimate the position
\* resolver reads (page_start as the merge left it) is the estimate of a
\* detection of the group with the highest provider confidence.
C21_MergedEstimateOfMostConfident ==
    pc = "resolve" =>
        \A k \in 1..Len(scenes) :
            LET group == GroupOf(scenes[k])
                best == {p \in group : \A q \in group :
                            DetectionAt(q).provider_confidence
                                <= DetectionAt(p).provider_confidence}
            IN  (/\ Cardinality(group) >= 2
                 /\ \E p \in group, q \in group :
                        DetectionAt(p).llm_estimated_start_page
                            # DetectionAt(q).llm_estimated_start_page
                 /\ \A p \in best : DetectionAt(p).llm_estimated_start_page # 0
                 /\ TextHits(scenes[k]) = {} /\ LayoutHits(scenes[k]) = {})
                => \E p \in best :
                       scenes[k].page_start = DetectionAt(p).llm_estimated_start_page

---------------------------------------------------------------------------
(* src/src/utils/text_processing.py: chunk_text, one round of its loop at  *)
(* a time.  call holds the arguments, the local start, the list chunks and *)
(* whether the function has returned.                                      *)

\* the bounds on the text length and on chunk_size
MaxTextLen == 6
MaxChunkSize == 4

\* the texts: chunk_text reads only the length and slices, so the characters
\* are taken pairwise different, which tells every slice from every other
ChunkTexts == {Prefix(LowerLetters, n) : n \in 0..MaxTextLen}

\* the chunks kept of a list that may grow without end: its last ChunkWindow
\* chunks, which is the whole list whenever start advances in every round
ChunkWindow == MaxTextLen + 1

WindowAppend(list, chunk) ==
    IF Len(list) < ChunkWindow THEN Append(list, chunk) ELSE Append(Tail(list), chunk)

\* a faulty next start that leaves the overlap out
next_start_at_end(end, overlap) == end

\* start = end - overlap
next_start(end, overlap) == end - overlap

ChunkInit == UtilInit

\* chunk_text(text, chunk_size, overlap) is called: chunks = [], start = 0
CallChunkText ==
    /\ call.fn = "none"
    /\ \E text \in ChunkTexts, chunk_size \in 1..MaxChunkSize :
          \E overlap \in 0..chunk_size :
              call' = [fn |-> "chunk_text", text |-> text, chunk_size |-> chunk_size,
                       overlap |-> overlap, start |-> 0, chunks |-> << >>,
                       at |-> "while"]
    /\ UNCHANGED pipeline_state

\* one round of the while loop, or the return when its condition fails
ChunkTextRound ==
    /\ call.fn = "chunk_text"
    /\ call.at = "while"
    /\ IF ~(call.start < Len(call.text))
       THEN call' = [call EXCEPT !.at = "returned"]
       ELSE \E end \in {IF call.start + call.chunk_size < Len(call.text)
                        THEN call.start + call.chunk_size ELSE Len(call.text)} :
               call' = [call EXCEPT
                           !.chunks = WindowAppend(@, <<Slice(call.text, call.start, end),
                                                        call.start, end>>),
                           !.start = IF end >= Len(call.text) THEN @
                                     ELSE next_start(end, call.overlap),
                           !.at = IF end >= Len(call.text) THEN "returned" ELSE "while"]
    /\ UNCHANGED pipeline_state

ChunkNext ==
    \/ CallChunkText
    \/ ChunkTextRound

ChunkSpec == ChunkInit /\ [][ChunkNext]_vars

\* the loop is run by one thread that goes on while it can
ChunkLiveSpec == ChunkSpec /\ WF_vars(ChunkTextRound)

\* C22: for 0 <= overlap < chunk_size, chunk_text returns chunks
\* (text[start:end], start, end) with start < end and at most chunk_size
\* characters; for a non-empty text the first starts at 0 and the last ends
\* at len(text); each later chunk starts overlap characters before the end of
\* the chunk before it and begins with that chunk's last overlap characters;
\* every position of the text is in some chunk.  The list is the one the
\* pipeline's chunk_text operator gives, and it is held whole.
C22_ChunksOverlapAndCover ==
    (call.fn = "chunk_text" /\ call.at = "returned" /\ call.overlap < call.chunk_size) =>
        LET list == call.chunks
            n == Len(call.text)
        IN  /\ Len(list) < ChunkWindow
            /\ AsSeq([i \in 1..Len(list) |-> <<list[i][2], list[i][3]>>])
                   = chunk_text(call.text, call.chunk_size, call.overlap)
            /\ (n = 0) = (list = << >>)
            /\ n > 0 => list[1][2] = 0 /\ list[Len(list)][3] = n
            /\ \A i \in 1..Len(list) :
                  /\ list[i][2] < list[i][3]
                  /\ list[i][1] = Slice(call.text, list[i][2], list[i][3])
                  /\ Len(list[i][1]) = list[i][3] - list[i][2]
                  /\ Len(list[i][1]) <= call.chunk_size
                  /\ i > 1 =>
                        /\ list[i][2] = list[i - 1][3] - call.overlap
                        /\ Prefix(list[i][1], call.overlap)
                              = Suffix(list[i - 1][1], Len(list[i - 1][1]) - call.overlap)
            /\ \A pos \in 0..(n - 1) :
                  \E i \in 1..Len(list) : list[i][2] <= pos /\ pos < list[i][3]

\* a returned call with overlap 1 and three chunks or more, the last one
\* shorter than chunk_size
C22_Witness ==
    /\ call.fn = "chunk_text"
    /\ call.at = "returned"
    /\ call.overlap = 1
    /\ call.overlap < call.chunk_size
    /\ Len(call.chunks) >= 3
    /\ Len(call.chunks[Len(call.chunks)][1]) < call.chunk_size

\* C27: for chunk_size >= 1 and overlap >= 0, whatever their relation, a call
\* of chunk_text returns.
C27_ChunkTextReturns ==
    (call.fn = "chunk_text") ~> (call.fn = "chunk_text" /\ call.at = "returned")

\* C23: the result of normalize_slugline has no lower-case letter, no two
\* whitespace characters in a row, no em or en dash, no character outside
\* the printable range, and neither whitespace nor one of .,;:!?()[]{} at
\* its start or end.
C23_NormalizedHeadingIsClean ==
    call.fn = "normalize_slugline" =>
        LET r == call.result
        IN  /\ \A i \in 1..Len(r) : r[i] \notin LowerSet
            /\ \A i \in 1..(Len(r) - 1) : ~(IsSpace(r[i]) /\ IsSpace(r[i + 1]))
            /\ "EM" \notin SeqRange(r) /\ "EN" \notin SeqRange(r)
            /\ SeqRange(r) \subseteq AsciiSet
            /\ r # << >> =>
                  /\ ~IsSpace(r[1]) /\ r[1] \notin Punctuation
                  /\ ~IsSpace(r[Len(r)]) /\ r[Len(r)] \notin Punctuation

\* the raw markers that name a time relative to the scene before
RelativeMarkers ==
    { <<"C", "O", "N", "T", "I", "N", "U", "O", "U", "S">>, <<"C", "O", "N", "T">>, <<"C", "O", "N", "T", ".">>, <<"L", "A", "T", "E", "R">>, <<"S", "A", "M", "E">> }

\* C29: every non-empty raw marker extract_time_raw returns for a heading is
\* mapped by canonicalize_time to a value other than UNKNOWN, and a relative
\* marker (CONTINUOUS, CONT, CONT., LATER, SAME) to CONTINUOUS, LATER or
\* SAME_AS_PREVIOUS with the inferred flag set.
C29_ExtractedMarkersAreCanonicalized ==
    (call.fn = "canonicalize_time" /\ call.time_raw # << >>) =>
        /\ call.result[1] # "UNKNOWN"
        /\ call.time_raw \in RelativeMarkers =>
              /\ call.result[1] \in {"CONTINUOUS", "LATER", "SAME_AS_PREVIOUS"}
              /\ call.result[2]

\* C30: an update_scene request that fails leaves every field of the
\* addressed scene as it was: while no request has been answered with 200,
\* the loaded scenes are the scenes the pipeline returned.
C30_FailedUpdateChangesNothing ==
    (/\ current_results.success
     /\ \A r \in 1..Len(update_requests) : update_requests[r].status # 200)
        => current_results.scenes = returned

---------------------------------------------------------------------------
(* Properties of the pipeline's sequencing and of the returned scenes      *)

\* C24: aggregate_scenes is entered only from _process_chunks, when every
\* chunk has its ChunkResult (real or empty), never on a partial set; and it
\* is entered once per document: after it has been entered the chunk loop
\* is not resumed and the results it was given do not change.
C24_AggregateOnceAfterAllChunks ==
    [][/\ (pc' = "group" /\ pc # "group") =>
            /\ pc = "process_chunks"
            /\ Len(chunk_results) = Len(chunks)
            /\ Len(provider_replies) = Len(chunks)
       /\ pc # "process_chunks" =>
            /\ pc' \notin {"process_chunks", "group"} \/ pc' = pc
            /\ chunk_results' = chunk_results]_vars

\* aggregation has started on a document of two chunks, the first of which
\* failed and got its empty result
C24_Witness ==
    /\ pc = "group"
    /\ Len(chunks) = 2
    /\ Len(chunk_results) = 2
    /\ provider_replies[1].raised
    /\ chunk_results[2].scenes # << >>

\* C25: the canonical numbers of the returned scenes are pairwise distinct,
\* whether they are a raw number kept as it is, a raw number with a letter
\* suffix, or an AUTON placeholder; and no returned scene keeps the
\* collection's 'PLACEHOLDER'.
C25_CanonicalNumbersAreDistinct ==
    pc = "done" =>
        /\ \A i, j \in 1..Len(returned) :
              returned[i].scene_number_canonical = returned[j].scene_number_canonical => i = j
        /\ \A j \in 1..Len(returned) :
              returned[j].scene_number_canonical
                  # <<"P", "L", "A", "C", "E", "H", "O", "L", "D", "E", "R">>

\* returned: a raw number kept, the same raw number suffixed, and a
\* placeholder
C25_Witness ==
    /\ pc = "done"
    /\ \E i, j, k \in 1..Len(returned) :
          /\ returned[i].scene_number_canonical = returned[i].scene_number_raw
          /\ returned[i].scene_number_raw # << >>
          /\ returned[j].scene_number_canonical = returned[i].scene_number_raw \o <<"_", "A">>
          /\ returned[k].scene_number_raw = << >>
          /\ SubSeq(returned[k].scene_number_canonical, 1, 6) = <<"A", "U", "T", "O", "N", "-">>

\* the scene was merged from two or more fragments
MergedFromSeveral(scene) ==
    \E g \in 1..Len(grouped_scenes) :
        /\ grouped_scenes[g].scene_id = scene.scene_id
        /\ Len(grouped_scenes[g].fragments) >= 2

\* C26: a returned scene is flagged for review exactly when it was merged
\* from two or more fragments or its non-empty raw number is the raw number
\* of another returned scene; a placeholder number alone does not flag.
C26_FlaggedIffMergedOrDuplicateNumber ==
    pc = "done" =>
        \A k \in 1..Len(returned) :
            returned[k].flagged_for_review <=>
                \/ MergedFromSeveral(returned[k])
                \/ /\ returned[k].scene_number_raw # << >>
                   /\ \E j \in 1..Len(returned) :
                         j # k /\ returned[j].scene_number_raw = returned[k].scene_number_raw

\* returned: an unflagged scene with a placeholder, a merged scene flagged
\* though its number is its own, and two unmerged scenes flagged for the
\* number they share
C26_Witness ==
    /\ pc = "done"
    /\ \E k \in 1..Len(returned) :
          /\ returned[k].scene_number_raw = << >>
          /\ ~returned[k].flagged_for_review
    /\ \/ \E k \in 1..Len(returned) :
             /\ MergedFromSeveral(returned[k])
             /\ returned[k].flagged_for_review
             /\ \A j \in 1..Len(returned) :
                   j # k => returned[j].scene_number_raw # returned[k].scene_number_raw
       \/ \E j, k \in 1..Len(returned) :
             /\ j # k
             /\ returned[j].scene_number_raw = returned[k].scene_number_raw
             /\ returned[k].scene_number_raw # << >>
             /\ ~MergedFromSeveral(returned[j]) /\ ~MergedFromSeveral(returned[k])
             /\ returned[j].flagged_for_review /\ returned[k].flagged_for_review

\* the canonical markers that stand for the time of the scene before
Unresolved == {"CONTINUOUS", "SAME_AS_PREVIOUS"}

\* C28: with auto_bulk_time_inference, after the time canonicalization a
\* scene at position i has the marker CONTINUOUS or SAME_AS_PREVIOUS only if
\* the own marker of every scene at positions 1..i is one of these two; so
\* once a scene has another own marker no later scene is left with one of
\* them, and a scene whose own marker is one of them keeps its
\* inferred-from-previous flag whether it was resolved or not.
C28_UnresolvedOnlyInLeadingRun ==
    (TimeApplied /\ config.auto_bulk_time_inference) =>
        \A i \in 1..Len(scenes) :
            /\ scenes[i].time_canonical \in Unresolved =>
                  \A j \in 1..i : OwnMarker(scenes[j]) \in Unresolved
            /\ OwnMarker(scenes[i]) \in Unresolved =>
                  scenes[i].time_inferred_from_previous

\* after the time stage: a first scene left SAME_AS_PREVIOUS or CONTINUOUS,
\* then a scene marked DAY, then a scene that took DAY from it and kept its
\* flag
C28_Witness ==
    /\ TimeApplied
    /\ config.auto_bulk_time_inference
    /\ Len(scenes) = 3
    /\ OwnMarker(scenes[1]) \in Unresolved
    /\ scenes[1].time_canonical \in Unresolved
    /\ OwnMarker(scenes[2]) = "DAY"
    /\ OwnMarker(scenes[3]) \in Unresolved
    /\ scenes[3].time_canonical = "DAY"
    /\ scenes[3].time_inferred_from_previous

=============================================================================
